---------------------------- MODULE Spec2Model ----------------------------
(***************************************************************************)
(* A model of the two grid engines of minesweeper_bot:                     *)
(*                                                                         *)
(*   - the disc-capture board, in its two revisions                        *)
(*       src/othello.rs        (struct Othello)                            *)
(*       src/othello/board.rs  (struct Board, used by main.rs)             *)
(*   - the mine field, in its two revisions                                *)
(*       src/mine_field.rs        (struct MineField)                       *)
(*       src/minesweeper/field.rs (struct Field)                           *)
(*                                                                         *)
(* Option<T> is modelled as a set: None is {} and Some(x) is {x}.          *)
(* A Rust panic (an out-of-range index) is modelled as a fault flag.       *)
(***************************************************************************)
EXTENDS Integers, Sequences, FiniteSets, TLC

VARIABLES
    impl,        \* disc game: which revision runs, "Othello" or "Board"
    data,        \* disc game: Board.data / Othello.board
    player,      \* disc game: Board.player / Othello.player
    game_over,   \* disc game: Board.game_over / Othello.game_over
    fault,       \* disc game: a panic has been raised
    opened,      \* disc game: the moves made so far along a scripted game
    calls,       \* disc game: number of free play calls made so far
    last,        \* disc game: the last play call: argument, result, state before
    fimpl,       \* mine field: which revision runs, "Field" or "MineField"
    field,       \* mine field: the Field / MineField struct
    clicks,      \* mine field: number of interactions still to be made
    flast,       \* mine field: the last interaction: argument, result, state before
    interactions,\* CoopGame.interactions: move count by user name
    clast,       \* CoopGame: the last interaction: user, what the caller got
    glast,       \* disc Game / OthelloGame: the last interaction: user, result
    running_games, \* GameManager.running_games: the keys of the registered games
    handled      \* GameManager::handle_update: the last update and how it ended

vars == <<impl, data, player, game_over, fault, opened, calls, last,
          fimpl, field, clicks, flast, interactions, clast, glast,
          running_games, handled>>

discVars == <<impl, data, player, game_over, fault, opened, calls, last>>
fieldVars == <<fimpl, field, clicks, flast>>
managerVars == <<running_games, handled>>
wrapVars == <<interactions, clast, glast, running_games, handled>>

-----------------------------------------------------------------------------
(* Bounds of the model.                                                    *)

\* free play calls made after the scripted opening of the disc game
MaxCalls == 1

\* the largest number of cells of a mine field
MaxCells == 8

\* the largest mine count given to the constructor
MaxMines == 2

\* interactions made on one mine field
MaxClicks == 3

\* the largest number of cells of a mine field in the longer runs
MaxChordCells == 6

\* interactions made on one mine field in the longer runs
MaxChordClicks == 5

\* the largest number of cells of the mine field of a cooperative game
MaxCoopCells == 4

\* interactions made on one cooperative game
MaxCoopClicks == 3

\* the largest number of rows and of columns asked of a constructor
MaxNewArg == 4

\* the step-wise flood fill: fields of at most MaxRevealCells cells, at most
\* MaxReveals calls of reveal on each
MaxRevealCells == 6
MaxReveals == 2

\* the game manager: interactions that reach the game of the game message
MaxManagerClicks == 2

\* the mine field of revision src/minesweeper.rs: fields of at most
\* MaxSweeperCells cells, MaxSweeperClicks interactions
MaxSweeperCells == 6
MaxSweeperClicks == 3

-----------------------------------------------------------------------------
(* Option<T>                                                               *)

None == {}
Some(x) == {x}

-----------------------------------------------------------------------------
(* Coord and Size (src/game.rs)                                            *)

\* Coord::add / add_assign
CoordAdd(a, b) == <<a[1] + b[1], a[2] + b[2]>>

\* Coord::sub / sub_assign
CoordSub(a, b) == <<a[1] - b[1], a[2] - b[2]>>

\* Coord::DIRECTIONS, in the order of the array
DIRECTIONS ==
    << <<-1, -1>>, <<-1, 0>>, <<-1, 1>>, <<0, -1>>,
       <<0, 1>>, <<1, -1>>, <<1, 0>>, <<1, 1>> >>

\* Size::contains
contains(size, coord) ==
    /\ coord[1] >= 0 /\ coord[1] < size[1]
    /\ coord[2] >= 0 /\ coord[2] < size[2]

\* the side of the disc board: Size(8, 8), [[Option<bool>; 8]; 8]
BoardSide == 8

\* Size::valid_indices for Size(8, 8): every in-bounds coordinate
BoardCoords == (0 .. BoardSide - 1) \X (0 .. BoardSide - 1)

\* Size::valid_indices yields row-major: the k-th coordinate, k from 0
valid_index(k) == <<k \div BoardSide, k % BoardSide>>


-----------------------------------------------------------------------------
(* The disc board, revision src/othello.rs (struct Othello)                *)

\* Othello::new: the four centre discs, false (black) to move
Othello_new ==
    [board |-> [c \in BoardCoords |->
                   IF c = <<3, 3>> \/ c = <<4, 4>> THEN Some(TRUE)
                   ELSE IF c = <<3, 4>> \/ c = <<4, 3>> THEN Some(FALSE)
                   ELSE None],
     player |-> FALSE,
     game_over |-> FALSE]

\* the loop of Othello::find_anchor: step, bounds test, then the cell
RECURSIVE Othello_find_anchor_loop(_, _, _, _, _)
Othello_find_anchor_loop(board, anchor, direction, p, valid) ==
    LET a == CoordAdd(anchor, direction) IN
    IF a[1] < 0 \/ a[1] >= 8 \/ a[2] < 0 \/ a[2] >= 8 THEN None
    ELSE IF board[a] = None THEN None
    ELSE IF board[a] = Some(p) THEN (IF valid THEN Some(a) ELSE None)
    ELSE Othello_find_anchor_loop(board, a, direction, p, TRUE)

\* Othello::find_anchor
Othello_find_anchor(board, coord, direction, p) ==
    Othello_find_anchor_loop(board, coord, direction, p, FALSE)

\* a capture loop that flips only the disc next to the anchor
Othello_capture_loop_one(board, p, anchor, coord, direction) ==
    LET a == CoordSub(anchor, direction) IN
    IF a = coord THEN board ELSE [board EXCEPT ![a] = Some(p)]

\* a capture that takes the bracketed discs off the board
RECURSIVE Othello_capture_loop_take(_, _, _, _, _)
Othello_capture_loop_take(board, p, anchor, coord, direction) ==
    LET a == CoordSub(anchor, direction) IN
    IF a = coord THEN board
    ELSE Othello_capture_loop_take([board EXCEPT ![a] = None], p, a, coord,
                                   direction)

\* the loop of Othello::capture: walk back from the anchor, stop at coord
RECURSIVE Othello_capture_loop(_, _, _, _, _)
Othello_capture_loop(board, p, anchor, coord, direction) ==
    LET a == CoordSub(anchor, direction) IN
    IF a = coord THEN board
    ELSE Othello_capture_loop([board EXCEPT ![a] = Some(p)], p, a, coord, direction)

\* Othello::capture: the board after it, and what it returns
Othello_capture(board, p, coord, direction) ==
    LET anchor == Othello_find_anchor(board, coord, direction, p) IN
    IF anchor # None
    THEN [board |-> Othello_capture_loop(board, p, CHOOSE a \in anchor : TRUE,
                                         coord, direction),
          ret |-> TRUE]
    ELSE [board |-> board, ret |-> FALSE]

\* Othello::has_move
Othello_has_move(board, p) ==
    \E c \in BoardCoords :
        /\ board[c] = None
        /\ \E i \in 1 .. Len(DIRECTIONS) :
               Othello_find_anchor(board, c, DIRECTIONS[i], p) # None

\* the for loop of Othello::play: valid |= capture(coord, direction)
RECURSIVE Othello_play_loop(_, _, _, _, _)
Othello_play_loop(board, p, coord, i, valid) ==
    IF i > Len(DIRECTIONS) THEN [board |-> board, valid |-> valid]
    ELSE LET r == Othello_capture(board, p, coord, DIRECTIONS[i]) IN
         Othello_play_loop(r.board, p, coord, i + 1, valid \/ r.ret)

\* a turn advance that always hands the turn over
Othello_advance_nopass(board, p, over) ==
    [player |-> ~p, game_over |-> over]

\* the turn advance when the end of the game is never recorded
Othello_advance_endless(board, p, over) ==
    IF Othello_has_move(board, ~p) THEN [player |-> ~p, game_over |-> over]
    ELSE [player |-> p, game_over |-> over]

\* the turn advance of Othello::play after a valid move
Othello_advance(board, p, over) ==
    IF Othello_has_move(board, ~p) THEN [player |-> ~p, game_over |-> over]
    ELSE IF ~Othello_has_move(board, p) THEN [player |-> p, game_over |-> TRUE]
    ELSE [player |-> p, game_over |-> over]

\* Othello::play: the state after it, and what it returns
Othello_play(st, coord) ==
    LET r == Othello_play_loop(st.board, st.player, coord, 1, FALSE) IN
    IF r.valid
    THEN LET b == [r.board EXCEPT ![coord] = Some(st.player)]
             t == Othello_advance(b, st.player, st.game_over)
         IN [board |-> b, player |-> t.player, game_over |-> t.game_over,
             ret |-> TRUE]
    ELSE [board |-> r.board, player |-> st.player, game_over |-> st.game_over,
          ret |-> FALSE]

-----------------------------------------------------------------------------
(* The disc board, revision src/othello/board.rs (struct Board)            *)

\* Board::new
Board_new ==
    [data |-> [c \in BoardCoords |->
                  IF c = <<3, 3>> \/ c = <<4, 4>> THEN Some(TRUE)
                  ELSE IF c = <<3, 4>> \/ c = <<4, 3>> THEN Some(FALSE)
                  ELSE None],
     player |-> FALSE,
     game_over |-> FALSE]

\* impl Index<Coord> for Board: data[index.0 as usize][index.1 as usize].
\* A negative i32 cast to usize is huge, so the array index panics exactly
\* when a component is outside 0..8.
Board_index_ok(index) ==
    /\ index[1] >= 0 /\ index[1] < BoardSide
    /\ index[2] >= 0 /\ index[2] < BoardSide

\* the loop of Board::find_anchor: the bounds test is made on the coordinate
\* before the step, the cell is read at the coordinate after it
RECURSIVE Board_find_anchor_loop(_, _, _, _, _)
Board_find_anchor_loop(d, coord, direction, p, valid) ==
    IF ~contains(<<8, 8>>, coord)
    THEN [fault |-> FALSE, ret |-> IF valid THEN Some(coord) ELSE None]
    ELSE LET c == CoordAdd(coord, direction) IN
         IF ~Board_index_ok(c) THEN [fault |-> TRUE, ret |-> None]
         ELSE IF d[c] = None THEN [fault |-> FALSE, ret |-> None]
         ELSE IF d[c] = Some(p)
              THEN [fault |-> FALSE, ret |-> IF valid THEN Some(c) ELSE None]
         ELSE Board_find_anchor_loop(d, c, direction, p, TRUE)

\* Board::find_anchor
Board_find_anchor(d, coord, direction, p) ==
    Board_find_anchor_loop(d, coord, direction, p, FALSE)

\* the loop of Board::capture: while anchor != coord, step back and write
RECURSIVE Board_capture_loop(_, _, _, _, _)
Board_capture_loop(d, p, anchor, coord, direction) ==
    IF anchor = coord THEN d
    ELSE LET a == CoordSub(anchor, direction) IN
         Board_capture_loop([d EXCEPT ![a] = Some(p)], p, a, coord, direction)

\* Board::capture: the data after it, what it returns, whether it panicked
Board_capture(d, p, coord, direction) ==
    LET r == Board_find_anchor(d, coord, direction, p) IN
    IF r.fault THEN [data |-> d, ret |-> FALSE, fault |-> TRUE]
    ELSE IF r.ret # None
    THEN [data |-> Board_capture_loop(d, p, CHOOSE a \in r.ret : TRUE,
                                      coord, direction),
          ret |-> TRUE, fault |-> FALSE]
    ELSE [data |-> d, ret |-> FALSE, fault |-> FALSE]

\* Board::has_move: valid_indices().any(.. DIRECTIONS.iter().any(..)), scanned
\* in order; k counts (cell, direction) pairs, 8 per cell
RECURSIVE Board_has_move_scan(_, _, _)
Board_has_move_scan(d, p, k) ==
    IF k >= BoardSide * BoardSide * Len(DIRECTIONS)
    THEN [fault |-> FALSE, ret |-> FALSE]
    ELSE LET c == valid_index(k \div Len(DIRECTIONS))
             i == (k % Len(DIRECTIONS)) + 1
         IN IF d[c] # None
            THEN Board_has_move_scan(d, p, k + Len(DIRECTIONS) - (i - 1))
            ELSE LET r == Board_find_anchor(d, c, DIRECTIONS[i], p) IN
                 IF r.fault THEN [fault |-> TRUE, ret |-> FALSE]
                 ELSE IF r.ret # None THEN [fault |-> FALSE, ret |-> TRUE]
                 ELSE Board_has_move_scan(d, p, k + 1)

\* Board::has_move
Board_has_move(d, p) == Board_has_move_scan(d, p, 0)

\* the for loop of Board::play: valid |= self.capture(coord, direction)
RECURSIVE Board_play_loop(_, _, _, _, _)
Board_play_loop(d, p, coord, i, valid) ==
    IF i > Len(DIRECTIONS) THEN [data |-> d, valid |-> valid, fault |-> FALSE]
    ELSE LET r == Board_capture(d, p, coord, DIRECTIONS[i]) IN
         IF r.fault THEN [data |-> r.data, valid |-> valid, fault |-> TRUE]
         ELSE Board_play_loop(r.data, p, coord, i + 1, valid \/ r.ret)

\* the turn advance of Board::play after a valid move
Board_advance(d, p, over) ==
    LET other == Board_has_move(d, ~p) IN
    IF other.fault THEN [player |-> p, game_over |-> over, fault |-> TRUE]
    ELSE IF other.ret THEN [player |-> ~p, game_over |-> over, fault |-> FALSE]
    ELSE LET mine == Board_has_move(d, p) IN
         IF mine.fault THEN [player |-> p, game_over |-> over, fault |-> TRUE]
         ELSE IF ~mine.ret THEN [player |-> p, game_over |-> TRUE, fault |-> FALSE]
         ELSE [player |-> p, game_over |-> over, fault |-> FALSE]

\* Board::play: the state after it, what it returns ("true", "false", or
\* "fault" when it panics and returns nothing)
Board_play(st, coord) ==
    LET r == Board_play_loop(st.data, st.player, coord, 1, FALSE) IN
    IF r.fault
    THEN [data |-> r.data, player |-> st.player, game_over |-> st.game_over,
          ret |-> "fault"]
    ELSE IF r.valid
    THEN LET b == [r.data EXCEPT ![coord] = Some(st.player)]
             t == Board_advance(b, st.player, st.game_over)
         IN [data |-> b, player |-> t.player, game_over |-> t.game_over,
             ret |-> IF t.fault THEN "fault" ELSE "true"]
    ELSE [data |-> r.data, player |-> st.player, game_over |-> st.game_over,
          ret |-> "false"]

-----------------------------------------------------------------------------
(* The disc game as a state machine                                        *)

\* Two known games give the play calls a path into the middle game: a
\* nine-move game that ends with every disc black (game over), and an
\* eight-move game whose last move leaves white without a move (forced
\* pass).  The caller follows one of them for any number of moves and then
\* makes at most MaxCalls arbitrary play calls.
ScriptWipeout ==
    << <<5, 4>>, <<3, 5>>, <<2, 4>>, <<5, 5>>, <<4, 6>>,
       <<5, 3>>, <<6, 4>>, <<4, 5>>, <<4, 2>> >>

ScriptSkip ==
    << <<2, 3>>, <<2, 2>>, <<2, 1>>, <<1, 1>>,
       <<4, 5>>, <<2, 0>>, <<0, 0>>, <<0, 2>> >>

Scripts == {ScriptWipeout, ScriptSkip}

\* coord is the next move of a script the calls so far have followed
Scripted(coord) ==
    /\ calls = 0
    /\ \E s \in Scripts :
          /\ Len(opened) < Len(s)
          /\ SubSeq(s, 1, Len(opened)) = opened
          /\ s[Len(opened) + 1] = coord

\* the calls the model lets the caller make
MayCall(coord) == Scripted(coord) \/ calls < MaxCalls

Count(coord) ==
    /\ opened' = IF Scripted(coord) THEN Append(opened, coord) ELSE opened
    /\ calls' = IF Scripted(coord) THEN calls ELSE calls + 1

NoCall(d, p, over) ==
    [coord |-> <<0, 0>>, ret |-> "none", data |-> d, player |-> p,
     game_over |-> over]

\* no wrapper (CoopGame, disc Game) is in use
\* GameManager::new: no game is registered, no update has been handled
ManagerIdle ==
    /\ running_games = {}
    /\ handled = [op |-> "none", ret |-> "none"]

WrapIdle ==
    /\ interactions = <<>>
    /\ clast = <<>>
    /\ glast = <<>>
    /\ ManagerIdle

FieldIdle ==
    /\ fimpl = "none"
    /\ field = <<>>
    /\ clicks = 0
    /\ flast = <<>>

\* the state after Othello::new / Board::new
DiscInit ==
    /\ impl \in {"Othello", "Board"}
    /\ data = IF impl = "Othello" THEN Othello_new.board ELSE Board_new.data
    /\ player = IF impl = "Othello" THEN Othello_new.player ELSE Board_new.player
    /\ game_over = IF impl = "Othello" THEN Othello_new.game_over
                   ELSE Board_new.game_over
    /\ fault = FALSE
    /\ opened = <<>>
    /\ calls = 0
    /\ last = NoCall(data, player, game_over)
    /\ FieldIdle
    /\ WrapIdle

\* a call of Othello::play(coord)
PlayOthello(coord) ==
    /\ impl = "Othello"
    /\ MayCall(coord)
    /\ LET r == Othello_play([board |-> data, player |-> player,
                              game_over |-> game_over], coord)
       IN /\ data' = r.board
          /\ player' = r.player
          /\ game_over' = r.game_over
          /\ last' = [coord |-> coord,
                      ret |-> IF r.ret THEN "true" ELSE "false",
                      data |-> data, player |-> player, game_over |-> game_over]
    /\ Count(coord)
    /\ UNCHANGED <<impl, fault>>
    /\ UNCHANGED fieldVars
    /\ UNCHANGED wrapVars

\* a call of Board::play(coord); a panic ends the process
PlayBoard(coord) ==
    /\ impl = "Board"
    /\ ~fault
    /\ MayCall(coord)
    /\ LET r == Board_play([data |-> data, player |-> player,
                            game_over |-> game_over], coord)
       IN /\ data' = r.data
          /\ player' = r.player
          /\ game_over' = r.game_over
          /\ fault' = (r.ret = "fault")
          /\ last' = [coord |-> coord, ret |-> r.ret,
                      data |-> data, player |-> player, game_over |-> game_over]
    /\ Count(coord)
    /\ UNCHANGED impl
    /\ UNCHANGED fieldVars
    /\ UNCHANGED wrapVars

DiscNext ==
    \E coord \in BoardCoords : PlayOthello(coord) \/ PlayBoard(coord)

SpecDisc == DiscInit /\ [][DiscNext]_vars

-----------------------------------------------------------------------------
(* Claims about the disc board.  The notions below restate the rules of    *)
(* the game on a board; they use no operator of the two revisions.         *)

InBoard(c) == c \in BoardCoords

\* the k-th cell of the ray from c in direction d
Ray(c, d, k) == <<c[1] + k * d[1], c[2] + k * d[2]>>

\* the lengths k >= 1 of a bracket from c in direction d for p: k opposing
\* discs on the cells 1..k of the ray and a disc of p on cell k + 1
Brackets(b, c, d, p) ==
    {k \in 1 .. BoardSide :
        /\ InBoard(Ray(c, d, k + 1))
        /\ b[Ray(c, d, k + 1)] = Some(p)
        /\ \A j \in 1 .. k : b[Ray(c, d, j)] = Some(~p)}

Dirs == {DIRECTIONS[i] : i \in 1 .. Len(DIRECTIONS)}

\* the cells a disc of p placed on c brackets, over the 8 directions
Bracketed(b, c, p) ==
    {x \in BoardCoords :
        \E d \in Dirs : \E k \in Brackets(b, c, d, p) :
            \E j \in 1 .. k : x = Ray(c, d, j)}

\* p has a legal move: an empty cell that brackets something
LegalMove(b, p) ==
    \E c \in BoardCoords : b[c] = None /\ Bracketed(b, c, p) # {}

\* a play call has been made and this is the state right after it
Played == last.ret # "none"

Unchanged ==
    /\ data = last.data
    /\ player = last.player
    /\ game_over = last.game_over

\* C1: play on an occupied cell returns false and leaves the board, the
\* current player and game_over unchanged.
C1_OccupiedIsIllegal ==
    (Played /\ last.data[last.coord] # None)
        => (last.ret = "false" /\ Unchanged)

\* find_anchor of the revision that runs, with Board's result shape
find_anchor(b, coord, direction, p) ==
    IF impl = "Board" THEN Board_find_anchor(b, coord, direction, p)
    ELSE [fault |-> FALSE, ret |-> Othello_find_anchor(b, coord, direction, p)]

\* the first cell of the ray from c that is off the board, empty or owned by p
FirstStop(b, c, d, p) ==
    CHOOSE k \in 1 .. BoardSide :
        /\ \/ ~InBoard(Ray(c, d, k))
           \/ b[Ray(c, d, k)] = None
           \/ b[Ray(c, d, k)] = Some(p)
        /\ \A j \in 1 .. k - 1 :
              InBoard(Ray(c, d, j)) /\ b[Ray(c, d, j)] = Some(~p)

\* C2: find_anchor returns no anchor when the ray leaves the board or reaches
\* an empty cell, and the first cell owned by player exactly when at least
\* one opposing disc lies strictly between; for every in-bounds coord, every
\* direction, either player, on every reachable board.
C2_FindAnchor ==
    \A c \in BoardCoords : \A d \in Dirs : \A p \in BOOLEAN :
        LET k == FirstStop(data, c, d, p)
            stop == Ray(c, d, k)
            r == find_anchor(data, c, d, p)
        IN /\ ~r.fault
           /\ r.ret = IF InBoard(stop) /\ data[stop] = Some(p) /\ k >= 2
                      THEN Some(stop) ELSE None

\* C3: no engine operation raises a fault.
C3_NoFault == ~fault

\* C4: after an accepted play, the turn passes if the other player has a
\* legal move; else the game is over if the mover has none either; else the
\* mover moves again and game_over is left as it was.
C4_TurnAdvance ==
    (Played /\ last.ret = "true") =>
        IF LegalMove(data, ~last.player)
        THEN player = ~last.player /\ game_over = last.game_over
        ELSE IF ~LegalMove(data, last.player)
        THEN game_over
        ELSE player = last.player /\ game_over = last.game_over

\* C4 witness: a forced pass: an accepted play after which the mover is
\* still to move and the game is not over
C4_ForcedPassReached ==
    /\ Played /\ last.ret = "true"
    /\ player = last.player
    /\ ~game_over
    /\ ~LegalMove(data, ~last.player)

\* C5: an accepted play flips exactly the bracketed opposing discs, places
\* the mover's disc at coord and changes no other cell.
C5_FlipsExactlyBracketed ==
    (Played /\ last.ret = "true") =>
        \A c \in BoardCoords :
            data[c] = IF c = last.coord \/ c \in Bracketed(last.data, last.coord, last.player)
                      THEN Some(last.player)
                      ELSE last.data[c]

\* C5 witness: an accepted play that flipped discs in two directions, one
\* of them over a bracket of two
C5_MultiFlipReached ==
    /\ Played /\ last.ret = "true"
    /\ \E d1 \in Dirs : \E d2 \in Dirs :
          /\ d1 # d2
          /\ 2 \in Brackets(last.data, last.coord, d1, last.player)
          /\ Brackets(last.data, last.coord, d2, last.player) # {}

\* C6: when no direction brackets anything, play returns false and leaves
\* the board, the current player and game_over unchanged.
C6_NoCaptureIsRejected ==
    (Played /\ Bracketed(last.data, last.coord, last.player) = {})
        => (last.ret = "false" /\ Unchanged)

-----------------------------------------------------------------------------
(* The mine field: cells                                                   *)

\* CellValue::Mine; mine_field.rs stores it as the value -1
Mine == -1

\* Cell::default / Cell::new: Number(0), Covered
Cell_default == [value |-> 0, state |-> "Covered"]

\* the bare index map on a grid with the given number of columns:
\* Field::to_index / MineField::get_index
to_index(columns, coord) == coord[1] * columns + coord[2]

\* every in-bounds coordinate of a grid
GridCoords(rows, columns) == (0 .. rows - 1) \X (0 .. columns - 1)

\* u32::max, u32::clamp
Max(a, b) == IF a >= b THEN a ELSE b
Clamp(x, lo, hi) == IF x < lo THEN lo ELSE IF x > hi THEN hi ELSE x

-----------------------------------------------------------------------------
(* The mine field, revision src/minesweeper/field.rs (struct Field)        *)

\* iproduct!(-1..=1, -1..=1): pairs (j, i), the first component slowest
Offsets == [k \in 1 .. 9 |-> <<((k - 1) \div 3) - 1, ((k - 1) % 3) - 1>>]

\* a neighbourhood without the four diagonal cells
neighborhood_of_orthogonal(coord, rows, columns) ==
    LET Shift(ji) == <<coord[1] + ji[2], coord[2] + ji[1]>>
        Beside(ji) == (ji[2] = 0) # (ji[1] = 0)
        InGrid(rc) == /\ rc[1] >= 0 /\ rc[1] < rows
                      /\ rc[2] >= 0 /\ rc[2] < columns
        moved == [k \in 1 .. Len(SelectSeq(Offsets, Beside)) |->
                     Shift(SelectSeq(Offsets, Beside)[k])]
    IN SelectSeq(moved, InGrid)

\* neighborhood_of: (coord.0 + i, coord.1 + j) for (j, i) # (0, 0), kept
\* when the row is in 0..rows and the column in 0..columns
neighborhood_of(coord, rows, columns) ==
    LET Shift(ji) == <<coord[1] + ji[2], coord[2] + ji[1]>>
        NotCentre(ji) == ji[2] # 0 \/ ji[1] # 0
        InGrid(rc) == /\ rc[1] >= 0 /\ rc[1] < rows
                      /\ rc[2] >= 0 /\ rc[2] < columns
        moved == [k \in 1 .. Len(SelectSeq(Offsets, NotCentre)) |->
                     Shift(SelectSeq(Offsets, NotCentre)[k])]
    IN SelectSeq(moved, InGrid)

\* Field::new
Field_new(rows, columns, mines) ==
    LET r == Max(rows, 2)
        c == Max(columns, 2)
        m == Clamp(mines, 1, r * c - 1)
    IN [initialized |-> FALSE,
        data |-> [i \in 0 .. c * r - 1 |-> Cell_default],
        rows |-> r,
        columns |-> c,
        mines |-> m,
        stats |-> [uncovered_blank |-> 0, covered_mine |-> m, exploded |-> 0]]

\* Field::iter_neighborhood: the cells of the neighbourhood
Field_iter_neighborhood(f, center) ==
    LET n == neighborhood_of(center, f.rows, f.columns) IN
    [k \in 1 .. Len(n) |-> f.data[to_index(f.columns, n[k])]]

\* an index shift that leaves a sampled index equal to the avoided one alone
Field_skip_avoid_after(i, avoid_index) == IF i > avoid_index THEN i + 1 ELSE i

\* the index shift of Field::initialize: a sampled index at or after the
\* avoided one moves up by one
Field_skip_avoid(i, avoid_index) == IF i >= avoid_index THEN i + 1 ELSE i

\* an initialize that lays the mines and the numbers but leaves the field
\* marked uninitialized
Field_initialize_unflagged(f, avoid, sample) ==
    LET avoid_index == to_index(f.columns, avoid)
        mined == {Field_skip_avoid(i, avoid_index) : i \in sample}
        laid == [f EXCEPT !.data = [i \in DOMAIN f.data |->
                     IF i \in mined THEN [f.data[i] EXCEPT !.value = Mine]
                     ELSE f.data[i]]]
        IsMine(c) == c.value = Mine
        Number(coord) == Len(SelectSeq(Field_iter_neighborhood(laid, coord), IsMine))
    IN [laid EXCEPT
          !.data = [i \in DOMAIN laid.data |->
                      IF laid.data[i].value # Mine
                      THEN [laid.data[i] EXCEPT
                              !.value = Number(<<i \div f.columns, i % f.columns>>)]
                      ELSE laid.data[i]]]

\* Field::initialize; sample is what rand::seq::index::sample returns: mines
\* distinct indices below columns * rows - 1
Field_initialize(f, avoid, sample) ==
    LET avoid_index == to_index(f.columns, avoid)
        mined == {Field_skip_avoid(i, avoid_index) : i \in sample}
        laid == [f EXCEPT !.data = [i \in DOMAIN f.data |->
                     IF i \in mined THEN [f.data[i] EXCEPT !.value = Mine]
                     ELSE f.data[i]]]
        IsMine(c) == c.value = Mine
        Number(coord) == Len(SelectSeq(Field_iter_neighborhood(laid, coord), IsMine))
    IN [laid EXCEPT
          !.data = [i \in DOMAIN laid.data |->
                      IF laid.data[i].value # Mine
                      THEN [laid.data[i] EXCEPT
                              !.value = Number(<<i \div f.columns, i % f.columns>>)]
                      ELSE laid.data[i]],
          !.initialized = TRUE]

\* a flood fill that also spreads from the cells numbered 1
RECURSIVE Field_reveal_through(_, _)
Field_reveal_through(f, queue) ==
    IF queue = <<>> THEN f
    ELSE LET coord == Head(queue)
             i == to_index(f.columns, coord)
         IN IF f.data[i].state = "Covered"
            THEN LET g == [f EXCEPT
                             !.data[i].state = "Uncovered",
                             !.stats.covered_mine =
                                 IF f.data[i].value = Mine THEN @ - 1 ELSE @,
                             !.stats.uncovered_blank =
                                 IF f.data[i].value = Mine THEN @ ELSE @ + 1]
                     IsCovered(c) == g.data[to_index(g.columns, c)].state = "Covered"
                 IN IF g.data[i].value \in {0, 1}
                    THEN Field_reveal_through(g, Tail(queue) \o
                             SelectSeq(neighborhood_of(coord, g.rows, g.columns),
                                    IsCovered))
                    ELSE Field_reveal_through(g, Tail(queue))
            ELSE Field_reveal_through(f, Tail(queue))

\* a flood fill that counts every uncovered cell, mine or not, as a blank
RECURSIVE Field_reveal_countall(_, _)
Field_reveal_countall(f, queue) ==
    IF queue = <<>> THEN f
    ELSE LET coord == Head(queue)
             i == to_index(f.columns, coord)
         IN IF f.data[i].state = "Covered"
            THEN LET g == [f EXCEPT
                             !.data[i].state = "Uncovered",
                             !.stats.covered_mine =
                                 IF f.data[i].value = Mine THEN @ - 1 ELSE @,
                             !.stats.uncovered_blank = @ + 1]
                     IsCovered(c) == g.data[to_index(g.columns, c)].state = "Covered"
                 IN IF g.data[i].value = 0
                    THEN Field_reveal_countall(g, Tail(queue) \o
                             SelectSeq(neighborhood_of(coord, g.rows, g.columns),
                                    IsCovered))
                    ELSE Field_reveal_countall(g, Tail(queue))
            ELSE Field_reveal_countall(f, Tail(queue))

\* an iteration that does not test the state of the cell it dequeues
Field_reveal_step_again(f, queue) ==
    LET coord == Head(queue)
        i == to_index(f.columns, coord)
        g == [f EXCEPT
                !.data[i].state = "Uncovered",
                !.stats.covered_mine =
                    IF f.data[i].value = Mine THEN @ - 1 ELSE @,
                !.stats.uncovered_blank =
                    IF f.data[i].value = Mine THEN @ ELSE @ + 1]
        IsCovered(c) == g.data[to_index(g.columns, c)].state = "Covered"
    IN IF g.data[i].value = 0
       THEN [field |-> g,
             queue |-> Tail(queue) \o
                 SelectSeq(neighborhood_of(coord, g.rows, g.columns), IsCovered)]
       ELSE [field |-> g, queue |-> Tail(queue)]

\* an iteration that leaves the cell it dequeues covered
Field_reveal_step_keep(f, queue) ==
    LET coord == Head(queue)
        i == to_index(f.columns, coord)
    IN IF f.data[i].state = "Covered"
       THEN LET g == [f EXCEPT
                        !.stats.covered_mine =
                            IF f.data[i].value = Mine THEN @ - 1 ELSE @,
                        !.stats.uncovered_blank =
                            IF f.data[i].value = Mine THEN @ ELSE @ + 1]
                IsCovered(c) == g.data[to_index(g.columns, c)].state = "Covered"
            IN IF g.data[i].value = 0
               THEN [field |-> g,
                     queue |-> Tail(queue) \o
                         SelectSeq(neighborhood_of(coord, g.rows, g.columns),
                                   IsCovered)]
               ELSE [field |-> g, queue |-> Tail(queue)]
       ELSE [field |-> f, queue |-> Tail(queue)]

\* Field::reveal: one iteration of the loop, from pop_front to the extend
Field_reveal_step(f, queue) ==
    LET coord == Head(queue)
        i == to_index(f.columns, coord)
    IN IF f.data[i].state = "Covered"
       THEN LET g == [f EXCEPT
                        !.data[i].state = "Uncovered",
                        !.stats.covered_mine =
                            IF f.data[i].value = Mine THEN @ - 1 ELSE @,
                        !.stats.uncovered_blank =
                            IF f.data[i].value = Mine THEN @ ELSE @ + 1]
                IsCovered(c) == g.data[to_index(g.columns, c)].state = "Covered"
            IN IF g.data[i].value = 0
               THEN [field |-> g,
                     queue |-> Tail(queue) \o
                         SelectSeq(neighborhood_of(coord, g.rows, g.columns),
                                   IsCovered)]
               ELSE [field |-> g, queue |-> Tail(queue)]
       ELSE [field |-> f, queue |-> Tail(queue)]

\* Field::reveal: the loop runs until the queue is empty
RECURSIVE Field_reveal(_, _)
Field_reveal(f, queue) ==
    IF queue = <<>> THEN f
    ELSE LET s == Field_reveal_step(f, queue)
         IN Field_reveal(s.field, s.queue)

\* Field::reveal_around
Field_reveal_around(f, coord) ==
    Field_reveal(f, neighborhood_of(coord, f.rows, f.columns))

\* an uncover that explodes the mine without counting it
Field_uncover_silent(f, coord) ==
    LET i == to_index(f.columns, coord) IN
    IF f.data[i].value = Mine
    THEN [f EXCEPT !.data[i].state = "Exploded"]
    ELSE Field_reveal(f, <<coord>>)

\* an uncover that takes the mine it explodes out of covered_mine
Field_uncover_defused(f, coord) ==
    LET i == to_index(f.columns, coord) IN
    IF f.data[i].value = Mine
    THEN [f EXCEPT !.stats.exploded = @ + 1, !.stats.covered_mine = @ - 1,
                   !.data[i].state = "Exploded"]
    ELSE Field_reveal(f, <<coord>>)

\* Field::uncover
Field_uncover(f, coord) ==
    LET i == to_index(f.columns, coord) IN
    IF f.data[i].value = Mine
    THEN [f EXCEPT !.stats.exploded = @ + 1, !.data[i].state = "Exploded"]
    ELSE Field_reveal(f, <<coord>>)

\* a test that lets the chord go ahead whenever a neighbour is covered
Field_chord_test_always(covered, uncovered_mines, value) == covered # 0

\* the test of Field::uncover_around on its two counts
Field_chord_test(covered, uncovered_mines, value) ==
    IF covered = 0 THEN FALSE
    ELSE uncovered_mines = value \/ covered + uncovered_mines = value

\* Field::uncover_around: what it returns, true when it goes on to reveal
Field_uncover_around_ret(f, coord) ==
    LET cell == f.data[to_index(f.columns, coord)]
        n == Field_iter_neighborhood(f, coord)
        IsUncoveredMine(c) == c.state = "Uncovered" /\ c.value = Mine
        NotUncovered(c) == c.state # "Uncovered"
        covered == Len(SelectSeq(n, NotUncovered))
        uncovered_mines == Len(SelectSeq(n, IsUncoveredMine))
    IN IF cell.value = Mine THEN FALSE
       ELSE Field_chord_test(covered, uncovered_mines, cell.value)

\* Field::uncover_around: the field after it, and what it returns
Field_uncover_around(f, coord) ==
    IF Field_uncover_around_ret(f, coord)
    THEN [field |-> Field_reveal_around(f, coord), ret |-> TRUE]
    ELSE [field |-> f, ret |-> FALSE]

-----------------------------------------------------------------------------
(* The mine field, revision src/mine_field.rs (struct MineField)           *)

\* NeighborhoodCoordIterator::new: the first coordinate it stands on
Neighborhood_start(center) ==
    <<IF center[1] > 0 THEN center[1] - 1 ELSE center[1],
      IF center[2] > 0 THEN center[2] - 1 ELSE center[2]>>

\* NeighborhoodCoordIterator::move_next
Neighborhood_move_next(rows, columns, center, current) ==
    LET col == current[2] + 1 IN
    IF col > center[2] + 1 \/ col >= columns
    THEN LET row == current[1] + 1 IN
         IF row > center[1] + 1 \/ row >= rows
         THEN [current |-> <<row, col>>, exhausted |-> TRUE]
         ELSE [current |-> <<row, IF center[2] > 0 THEN center[2] - 1 ELSE 0>>,
               exhausted |-> FALSE]
    ELSE [current |-> <<current[1], col>>, exhausted |-> FALSE]

\* Iterator::next of NeighborhoodCoordIterator, called until it returns None
RECURSIVE Neighborhood_collect(_, _, _, _, _)
Neighborhood_collect(rows, columns, center, current, exhausted) ==
    IF exhausted THEN <<>>
    ELSE LET skip == IF current = center
                     THEN Neighborhood_move_next(rows, columns, center, current)
                     ELSE [current |-> current, exhausted |-> FALSE]
         IN IF skip.exhausted THEN <<>>
            ELSE LET after == Neighborhood_move_next(rows, columns, center,
                                                     skip.current)
                 IN <<skip.current>> \o
                    Neighborhood_collect(rows, columns, center,
                                         after.current, after.exhausted)

\* NeighborhoodCoordIterator: the coordinates it yields, in order
NeighborhoodCoordIterator(rows, columns, center) ==
    Neighborhood_collect(rows, columns, center, Neighborhood_start(center), FALSE)

\* MineField::new
MineField_new(rows, columns, mines) ==
    LET r == IF rows < 2 THEN 2 ELSE rows
        c == IF columns < 2 THEN 2 ELSE columns
        m == IF mines < 1 THEN 1
             ELSE IF mines >= r * c THEN r * c - 1
             ELSE mines
    IN [initialized |-> FALSE,
        data |-> [i \in 0 .. c * r - 1 |-> Cell_default],
        rows |-> r,
        columns |-> c,
        mines |-> m,
        stats |-> [uncovered_blank |-> 0, exploded |-> 0]]

\* MineField::iter_neighborhood
MineField_iter_neighborhood(f, center) ==
    LET n == NeighborhoodCoordIterator(f.rows, f.columns, center) IN
    [k \in 1 .. Len(n) |-> f.data[to_index(f.columns, n[k])]]

\* the index shift of MineField::initialize
MineField_skip_avoid(i, avoid_index) == IF i >= avoid_index THEN i + 1 ELSE i

\* MineField::initialize
MineField_initialize(f, avoid, sample) ==
    LET avoid_index == to_index(f.columns, avoid)
        mined == {MineField_skip_avoid(i, avoid_index) : i \in sample}
        laid == [f EXCEPT !.data = [i \in DOMAIN f.data |->
                     IF i \in mined THEN [f.data[i] EXCEPT !.value = Mine]
                     ELSE f.data[i]]]
        IsMine(c) == c.value < 0
        Number(coord) == Len(SelectSeq(MineField_iter_neighborhood(laid, coord), IsMine))
    IN [laid EXCEPT
          !.data = [i \in DOMAIN laid.data |->
                      IF ~(laid.data[i].value < 0)
                      THEN [laid.data[i] EXCEPT
                              !.value = Number(<<i \div f.columns, i % f.columns>>)]
                      ELSE laid.data[i]],
          !.initialized = TRUE]

\* MineField::reveal: one iteration of the loop, from pop_front to the extend
MineField_reveal_step(f, queue) ==
    LET coord == Head(queue)
        i == to_index(f.columns, coord)
    IN IF f.data[i].state = "Covered"
       THEN LET g == [f EXCEPT
                        !.data[i].state = "Uncovered",
                        !.stats.uncovered_blank =
                            IF f.data[i].value < 0 THEN @ ELSE @ + 1]
                IsCovered(c) == g.data[to_index(g.columns, c)].state = "Covered"
            IN IF g.data[i].value = 0
               THEN [field |-> g,
                     queue |-> Tail(queue) \o
                         SelectSeq(NeighborhoodCoordIterator(g.rows, g.columns, coord),
                                   IsCovered)]
               ELSE [field |-> g, queue |-> Tail(queue)]
       ELSE [field |-> f, queue |-> Tail(queue)]

\* MineField::reveal: the loop runs until the queue is empty
RECURSIVE MineField_reveal(_, _)
MineField_reveal(f, queue) ==
    IF queue = <<>> THEN f
    ELSE LET s == MineField_reveal_step(f, queue)
         IN MineField_reveal(s.field, s.queue)

\* MineField::reveal_around
MineField_reveal_around(f, coord) ==
    MineField_reveal(f, NeighborhoodCoordIterator(f.rows, f.columns, coord))

\* an uncover whose mine test also takes a cell with no mine around it
MineField_uncover_zero(f, coord) ==
    LET i == to_index(f.columns, coord) IN
    IF f.data[i].value <= 0
    THEN [f EXCEPT !.stats.exploded = @ + 1, !.data[i].state = "Exploded"]
    ELSE MineField_reveal(f, <<coord>>)

\* MineField::uncover
MineField_uncover(f, coord) ==
    LET i == to_index(f.columns, coord) IN
    IF f.data[i].value < 0
    THEN [f EXCEPT !.stats.exploded = @ + 1, !.data[i].state = "Exploded"]
    ELSE MineField_reveal(f, <<coord>>)

\* the test of MineField::uncover_around on its two counts
MineField_chord_test(covered, uncovered_mines, value) ==
    IF covered = 0 THEN FALSE
    ELSE uncovered_mines = value \/ covered + uncovered_mines = value

\* MineField::uncover_around: what it returns, true when it goes on to reveal
MineField_uncover_around_ret(f, coord) ==
    LET cell == f.data[to_index(f.columns, coord)]
        n == MineField_iter_neighborhood(f, coord)
        IsUncoveredMine(c) == c.state = "Uncovered" /\ c.value < 0
        NotUncovered(c) == c.state # "Uncovered"
        covered == Len(SelectSeq(n, NotUncovered))
        uncovered_mines == Len(SelectSeq(n, IsUncoveredMine))
    IN IF cell.value < 0 THEN FALSE
       ELSE MineField_chord_test(covered, uncovered_mines, cell.value)

\* MineField::uncover_around: the field after it, and what it returns
MineField_uncover_around(f, coord) ==
    IF MineField_uncover_around_ret(f, coord)
    THEN [field |-> MineField_reveal_around(f, coord), ret |-> TRUE]
    ELSE [field |-> f, ret |-> FALSE]

-----------------------------------------------------------------------------
(* The mine field as a state machine                                       *)

\* the arguments of the constructor the model tries, before clamping, for
\* fields of at most cells cells
NewArgs(cells) ==
    {a \in (0 .. cells) \X (0 .. cells) \X (0 .. MaxMines) :
        Max(a[1], 2) * Max(a[2], 2) <= cells}

DiscIdle ==
    /\ impl = "none"
    /\ data = <<>>
    /\ player = FALSE
    /\ game_over = FALSE
    /\ fault = FALSE
    /\ opened = <<>>
    /\ calls = 0
    /\ last = <<>>

\* the state after Field::new / MineField::new, with n interactions to come
FieldStart(cells, n) ==
    /\ fimpl \in {"Field", "MineField"}
    /\ \E a \in NewArgs(cells) :
          field = IF fimpl = "Field" THEN Field_new(a[1], a[2], a[3])
                  ELSE MineField_new(a[1], a[2], a[3])
    /\ clicks = n
    /\ flast = [coord |-> <<0, 0>>, op |-> "none", ret |-> "none",
                initialized |-> FALSE, pre |-> field]
    /\ DiscIdle
    /\ WrapIdle

\* what rand::seq::index::sample(rng, length, amount) can return
Samples(length, amount) ==
    {s \in SUBSET (0 .. length - 1) : Cardinality(s) = amount}

\* An interaction at coord, dispatched as MineField::interact does: the first
\* one initializes the field avoiding coord; a covered cell is uncovered, any
\* other cell is chorded.  Here on a Field.
InteractField(coord) ==
    /\ fimpl = "Field"
    /\ clicks > 0
    /\ \E sample \in IF field.initialized THEN {{}}
                     ELSE Samples(field.columns * field.rows - 1, field.mines) :
          LET f == IF field.initialized THEN field
                   ELSE Field_initialize(field, coord, sample)
          IN IF f.data[to_index(f.columns, coord)].state = "Covered"
             THEN /\ field' = Field_uncover(f, coord)
                  /\ flast' = [coord |-> coord, op |-> "uncover", ret |-> "unit",
                               initialized |-> ~field.initialized, pre |-> f]
             ELSE LET r == Field_uncover_around(f, coord) IN
                  /\ field' = r.field
                  /\ flast' = [coord |-> coord, op |-> "uncover_around",
                               ret |-> IF r.ret THEN "true" ELSE "false",
                               initialized |-> ~field.initialized, pre |-> f]
    /\ clicks' = clicks - 1
    /\ UNCHANGED fimpl
    /\ UNCHANGED discVars
    /\ UNCHANGED wrapVars

\* The same interaction on a MineField.
InteractMineField(coord) ==
    /\ fimpl = "MineField"
    /\ clicks > 0
    /\ \E sample \in IF field.initialized THEN {{}}
                     ELSE Samples(field.columns * field.rows - 1, field.mines) :
          LET f == IF field.initialized THEN field
                   ELSE MineField_initialize(field, coord, sample)
          IN IF f.data[to_index(f.columns, coord)].state = "Covered"
             THEN /\ field' = MineField_uncover(f, coord)
                  /\ flast' = [coord |-> coord, op |-> "uncover", ret |-> "unit",
                               initialized |-> ~field.initialized, pre |-> f]
             ELSE LET r == MineField_uncover_around(f, coord) IN
                  /\ field' = r.field
                  /\ flast' = [coord |-> coord, op |-> "uncover_around",
                               ret |-> IF r.ret THEN "true" ELSE "false",
                               initialized |-> ~field.initialized, pre |-> f]
    /\ clicks' = clicks - 1
    /\ UNCHANGED fimpl
    /\ UNCHANGED discVars
    /\ UNCHANGED wrapVars

FieldNext ==
    \E coord \in GridCoords(field.rows, field.columns) :
        InteractField(coord) \/ InteractMineField(coord)

\* fields of up to MaxCells cells, MaxClicks interactions
FieldInit == FieldStart(MaxCells, MaxClicks)

SpecField == FieldInit /\ [][FieldNext]_vars

\* smaller fields, longer runs: up to MaxChordCells cells, MaxChordClicks
\* interactions
ChordInit == FieldStart(MaxChordCells, MaxChordClicks)

SpecChord == ChordInit /\ [][FieldNext]_vars

-----------------------------------------------------------------------------
(* Claims about the mine field.  The notions below restate the rules on a  *)
(* grid; they use no operator of the two revisions.                        *)

\* the cell of field f at coordinate c
CellAt(f, c) == f.data[c[1] * f.columns + c[2]]

Cells(f) == GridCoords(f.rows, f.columns)

Abs(x) == IF x < 0 THEN -x ELSE x

\* the in-bounds Moore neighbours of c: up to 8 cells, never c itself
Moore(f, c) ==
    {x \in Cells(f) : x # c /\ Abs(x[1] - c[1]) <= 1 /\ Abs(x[2] - c[2]) <= 1}

MineCells(f) == {c \in Cells(f) : CellAt(f, c).value = Mine}

\* the cells in the given state
InState(f, s) == {c \in Cells(f) : CellAt(f, c).state = s}

\* the maximal 8-connected set of zero-valued cells around the set zs
RECURSIVE ZeroRegionFrom(_, _)
ZeroRegionFrom(f, zs) ==
    LET more == zs \cup {x \in Cells(f) :
                            /\ CellAt(f, x).value = 0
                            /\ \E z \in zs : x \in Moore(f, z)}
    IN IF more = zs THEN zs ELSE ZeroRegionFrom(f, more)

\* the zero region of the zero-valued cell c, and that region with the ring
\* of cells bordering it
ZeroRegion(f, c) == ZeroRegionFrom(f, {c})
RegionAndRing(f, c) ==
    ZeroRegion(f, c) \cup {x \in Cells(f) : \E z \in ZeroRegion(f, c) : x \in Moore(f, z)}

\* what a flood fill seeded at the covered cell c may uncover
FloodOf(f, c) == IF CellAt(f, c).value = 0 THEN RegionAndRing(f, c) ELSE {c}

\* the cells whose value or state differ between f and g
Differ(f, g) == {c \in Cells(f) : CellAt(f, c) # CellAt(g, c)}

\* the cells covered in f and uncovered in g
NewlyUncovered(f, g) == InState(f, "Covered") \cap InState(g, "Uncovered")

\* C7: after initialize(avoid), exactly mines cells are mines and the cell
\* at avoid is not one of them.
C7_MineCount ==
    /\ field.initialized => Cardinality(MineCells(field)) = field.mines
    /\ flast.initialized =>
          /\ Cardinality(MineCells(flast.pre)) = flast.pre.mines
          /\ flast.coord \notin MineCells(flast.pre)

\* C7 witness: an initialization that laid two mines, one before and one
\* after the avoided cell in index order
C7_InitializedReached ==
    /\ flast.initialized
    /\ field.mines = 2
    /\ \E a \in MineCells(field) : \E b \in MineCells(field) :
          /\ to_index(field.columns, a) < to_index(field.columns, flast.coord)
          /\ to_index(field.columns, b) > to_index(field.columns, flast.coord)

\* C8: after initialization every non-mine cell holds the number of mines
\* among its in-bounds Moore neighbours.
C8_NeighbourNumbers ==
    field.initialized =>
        \A c \in Cells(field) \ MineCells(field) :
            CellAt(field, c).value =
                Cardinality(Moore(field, c) \cap MineCells(field))

\* C8 witness: an initialized field with a corner cell numbered 2 and an
\* inner-edge cell numbered 0
C8_NumbersReached ==
    /\ field.initialized
    /\ CellAt(field, <<0, 0>>).value = 2
    /\ \E c \in Cells(field) : CellAt(field, c).value = 0

\* C9: uncovering a covered zero cell uncovers its zero region and the ring
\* around it and nothing beyond; uncovering a covered non-zero non-mine cell
\* uncovers that cell only.
C9_FloodClosure ==
    (flast.op = "uncover" /\ flast.coord \notin MineCells(flast.pre)) =>
        /\ NewlyUncovered(flast.pre, field)
              = FloodOf(flast.pre, flast.coord) \cap InState(flast.pre, "Covered")
        /\ FloodOf(flast.pre, flast.coord) \subseteq InState(field, "Uncovered")
        /\ Differ(flast.pre, field) = NewlyUncovered(flast.pre, field)

\* C9 witness: a flood fill over a region of several zero cells with a ring,
\* that left a non-mine cell beyond the ring covered
C9_FloodReached ==
    /\ flast.op = "uncover"
    /\ CellAt(flast.pre, flast.coord).value = 0
    /\ Cardinality(ZeroRegion(flast.pre, flast.coord)) >= 2
    /\ RegionAndRing(flast.pre, flast.coord) # ZeroRegion(flast.pre, flast.coord)
    /\ \E c \in Cells(field) \ MineCells(field) : CellAt(field, c).state = "Covered"

\* the covered neighbours of c, and its uncovered mine neighbours
CoveredAround(f, c) == Moore(f, c) \cap InState(f, "Covered")
UncoveredMinesAround(f, c) == Moore(f, c) \cap InState(f, "Uncovered") \cap MineCells(f)

\* what a chord that fires may uncover: the flood fill of every covered
\* neighbour
ChordFlood(f, c) ==
    {x \in Cells(f) : \E n \in CoveredAround(f, c) : x \in FloodOf(f, n)}

\* C10: uncover_around on a numbered cell returns false and changes nothing
\* when the cell has no covered neighbour; otherwise, when uncovered_mines =
\* value or covered + uncovered_mines = value, it uncovers every covered
\* neighbour, flood-filling from each, and returns true; in every other case
\* it returns false and changes nothing.
C10_Chord ==
    (flast.op = "uncover_around" /\ flast.coord \notin MineCells(flast.pre)) =>
        LET covered == Cardinality(CoveredAround(flast.pre, flast.coord))
            uncovered_mines == Cardinality(UncoveredMinesAround(flast.pre, flast.coord))
            value == CellAt(flast.pre, flast.coord).value
        IN IF covered # 0 /\ (uncovered_mines = value \/ covered + uncovered_mines = value)
           THEN /\ flast.ret = "true"
                /\ CoveredAround(flast.pre, flast.coord) \subseteq InState(field, "Uncovered")
                /\ NewlyUncovered(flast.pre, field)
                      = ChordFlood(flast.pre, flast.coord) \cap InState(flast.pre, "Covered")
                /\ Differ(flast.pre, field) = NewlyUncovered(flast.pre, field)
           ELSE flast.ret = "false" /\ field = flast.pre

-----------------------------------------------------------------------------
(* The state of the mine-field game.  The classification is the one of      *)
(* section 4.1 of the design document; its code, minesweeper/game.rs, is    *)
(* not among the sources.                                                   *)

\* GridGame::get_state of the mine-field game
get_state(f) ==
    IF f.stats.exploded > 0 THEN "GameOver"
    ELSE IF f.stats.uncovered_blank + f.mines = f.rows * f.columns THEN "Solved"
    ELSE "Normal"

\* the non-mine cells of f that are uncovered
UncoveredBlanks(f) == InState(f, "Uncovered") \ MineCells(f)

C12_SolvedEquation ==
    field.initialized =>
        ((field.stats.uncovered_blank + field.mines = field.rows * field.columns)
            <=> (/\ Cells(field) \ MineCells(field) \subseteq InState(field, "Uncovered")
                 /\ InState(field, "Exploded") = {}))

\* C12 amended: on an initialized field, uncovered_blank + mines = rows *
\* columns exactly when every non-mine cell is uncovered, whether or not a
\* mine has exploded.
C12_SolvedEquationBlanks ==
    field.initialized =>
        ((field.stats.uncovered_blank + field.mines = field.rows * field.columns)
            <=> (Cells(field) \ MineCells(field) \subseteq InState(field, "Uncovered")))

\* C12 witness: every non-mine cell uncovered and a mine exploded
C12_ClearedAndExplodedReached ==
    /\ field.initialized
    /\ Cells(field) \ MineCells(field) \subseteq InState(field, "Uncovered")
    /\ InState(field, "Exploded") # {}

\* C13: initialize runs in the first interaction and in no later one, and
\* once the field is initialized it stays so and no cell's value changes
\* (so the set of mine cells is fixed).
C13_InitializeOnce ==
    [][ /\ ~field.initialized => (flast'.initialized /\ field'.initialized)
        /\ field.initialized =>
              /\ ~flast'.initialized
              /\ field'.initialized
              /\ \A c \in Cells(field) :
                    CellAt(field', c).value = CellAt(field, c).value ]_vars

\* C13 witness: a later interaction that changed the field by a chord
C13_LaterChordReached ==
    /\ field.initialized
    /\ ~flast.initialized
    /\ flast.op = "uncover_around"
    /\ flast.ret = "true"
    /\ field # flast.pre

-----------------------------------------------------------------------------
(* What an interaction reports (src/minesweeper.rs, MineField::interact)   *)

\* MineField::is_solved
is_solved(f) == f.stats.uncovered_blank + f.mines = f.columns * f.rows

\* what MineField::interact returned for the interaction just made: a
\* covered cell is uncovered (GameOver when it was a mine, else Changed); any
\* other cell is chorded (Unchanged when the chord returned false, else
\* Solved or Changed by is_solved)
interact_result ==
    IF flast.op = "uncover"
    THEN IF CellAt(flast.pre, flast.coord).value = Mine THEN "GameOver"
         ELSE "Changed"
    ELSE IF flast.ret = "true"
         THEN IF is_solved(field) THEN "Solved" ELSE "Changed"
         ELSE "Unchanged"

\* an interaction has been made and this is the state right after it
Interacted == fimpl # "none" /\ flast.op # "none"

\* the cells whose state (covered, uncovered, exploded) the interaction
\* changed
StateChanged(f, g) == {c \in Cells(f) : CellAt(f, c).state # CellAt(g, c).state}

\* C14: an interaction reports a change (a result other than Unchanged on the
\* mine field, true on the disc board) exactly when it changed the visible
\* state of at least one cell, also after a mine has exploded.
C14_ReportsChange ==
    /\ Interacted =>
          ((interact_result # "Unchanged") <=> (StateChanged(flast.pre, field) # {}))
    /\ (impl # "none" /\ Played) =>
          ((last.ret = "true") <=> (data # last.data))

-----------------------------------------------------------------------------
(* The mine-field game behind the GridGame trait.  Its code,               *)
(* minesweeper/game.rs, is not among the sources; interact dispatches as    *)
(* MineField::interact of src/minesweeper.rs does, the board is rendered as *)
(* section 4.1 of the design document says.                                 *)

\* GridGame::interact of the mine-field game on revision rev: the field
\* after it, the field it acted on (after a first initialize), and whether it
\* reports a change
Minesweeper_interact(rev, f, coord, sample) ==
    LET g == IF f.initialized THEN f
             ELSE IF rev = "Field" THEN Field_initialize(f, coord, sample)
             ELSE MineField_initialize(f, coord, sample)
    IN IF g.data[to_index(g.columns, coord)].state = "Covered"
       THEN [field |-> IF rev = "Field" THEN Field_uncover(g, coord)
                       ELSE MineField_uncover(g, coord),
             pre |-> g, op |-> "uncover", ret |-> TRUE]
       ELSE LET r == IF rev = "Field" THEN Field_uncover_around(g, coord)
                     ELSE MineField_uncover_around(g, coord)
            IN [field |-> r.field, pre |-> g, op |-> "uncover_around",
                ret |-> r.ret]

\* GridGame::to_inline_keyboard of the mine-field game: the label of every
\* cell
to_inline_keyboard(f) ==
    [c \in Cells(f) |->
        IF CellAt(f, c).state = "Covered" THEN "covered"
        ELSE IF CellAt(f, c).state = "Exploded" THEN "exploded"
        ELSE IF CellAt(f, c).value = Mine THEN "mine"
        ELSE IF CellAt(f, c).value = 0 THEN "blank"
        ELSE <<"1", "2", "3", "4", "5", "6", "7", "8">>[CellAt(f, c).value]]

\* GridGame::get_text of the mine-field game: the status text, which is a
\* function of the mine count and the statistics; its wording is not modelled
get_text(f) == <<"status", f.mines, f.stats>>

-----------------------------------------------------------------------------
(* Users (telegram_bot::User), as far as the games read them               *)

Alice == [id |-> 1, username |-> Some("alice"), first_name |-> "Alice"]
Bob == [id |-> 2, username |-> Some("bob"), first_name |-> "Bob"]
\* a user without a username
Carol == [id |-> 3, username |-> None, first_name |-> "Carol"]
\* a user without a username whose first name is another user's username
Dave == [id |-> 4, username |-> None, first_name |-> "alice"]

\* user.username.as_ref().unwrap_or(&user.first_name)
display_name(user) ==
    IF user.username = None THEN user.first_name
    ELSE CHOOSE n \in user.username : TRUE

-----------------------------------------------------------------------------
(* CoopGame (src/coop_game.rs; the same text in src/grid_game.rs)          *)

\* the orders in which HashMap::iter may yield the keys of counts
IterOrders(counts) ==
    {s \in [1 .. Cardinality(DOMAIN counts) -> DOMAIN counts] :
        \A i, j \in DOMAIN s : i # j => s[i] # s[j]}

\* a loop that finds the largest count but keeps the name it saw last
RECURSIVE CoopGame_scan_last(_, _, _, _, _)
CoopGame_scan_last(counts, order, i, largest_count, top_contributor) ==
    IF i > Len(order)
    THEN [largest_count |-> largest_count, top_contributor |-> top_contributor]
    ELSE CoopGame_scan_last(counts, order, i + 1,
                            Max(largest_count, counts[order[i]]), order[i])

\* the loop over interactions.iter(): the largest count and the first name
\* that holds it in the order of iteration
RECURSIVE CoopGame_scan(_, _, _, _, _)
CoopGame_scan(counts, order, i, largest_count, top_contributor) ==
    IF i > Len(order)
    THEN [largest_count |-> largest_count, top_contributor |-> top_contributor]
    ELSE IF counts[order[i]] > largest_count
         THEN CoopGame_scan(counts, order, i + 1, counts[order[i]], order[i])
         ELSE CoopGame_scan(counts, order, i + 1, largest_count, top_contributor)

\* the last line of the summary when the acting actor is compared with the
\* contributor found by the loop instead of with the largest count
CoopGame_closing_by_name(counts, order, username, state) ==
    LET top == CoopGame_scan(counts, order, 1, 0, "") IN
    IF username = top.top_contributor
    THEN IF state = "Solved" THEN <<username, "has won the game!">>
         ELSE <<"Boom,", username, "is dead!">>
    ELSE IF state = "Solved"
         THEN <<username, "has snatched it from", top.top_contributor>>
         ELSE <<username, "has ruined it for", top.top_contributor>>

\* the last line of the summary
CoopGame_closing(counts, order, username, state) ==
    LET top == CoopGame_scan(counts, order, 1, 0, "") IN
    IF counts[username] = top.largest_count
    THEN IF state = "Solved" THEN <<username, "has won the game!">>
         ELSE <<"Boom,", username, "is dead!">>
    ELSE IF state = "Solved"
         THEN <<username, "has snatched it from", top.top_contributor>>
         ELSE <<username, "has ruined it for", top.top_contributor>>

\* the counters when a move is only recorded, never added up
CoopGame_count_insert(counts, username) ==
    (username :> 1) @@ counts

\* the counters after one more move of username
CoopGame_count(counts, username) ==
    IF username \in DOMAIN counts
    THEN [counts EXCEPT ![username] = @ + 1]
    ELSE (username :> 1) @@ counts

\* CoopGame::interact when a move that leaves the game running refreshes the
\* text alone
CoopGame_interact_text_only(counts, changed, game, user, order) ==
    IF changed
    THEN LET username == display_name(user)
             counted == CoopGame_count(counts, username)
             keyboard_markup == to_inline_keyboard(game)
             state == get_state(game)
         IN [interactions |-> counted,
             result |->
               IF state = "Normal"
               THEN Some([update_text |-> Some(get_text(game)),
                          update_board |-> None,
                          game_end |-> FALSE])
               ELSE Some([update_text |->
                             Some([summary |-> [k \in 1 .. Len(order) |->
                                                   <<order[k], counted[order[k]]>>],
                                   closing |-> CoopGame_closing(counted, order,
                                                                username, state)]),
                          update_board |-> Some(keyboard_markup),
                          game_end |-> TRUE])]
    ELSE [interactions |-> counts, result |-> None]

\* CoopGame::interact, given what the wrapped game's interact returned
\* (changed) and the wrapped game after it: the counters and the result
CoopGame_interact(counts, changed, game, user, order) ==
    IF changed
    THEN LET username == display_name(user)
             counted == CoopGame_count(counts, username)
             keyboard_markup == to_inline_keyboard(game)
             state == get_state(game)
         IN [interactions |-> counted,
             result |->
               IF state = "Normal"
               THEN Some([update_text |-> Some(get_text(game)),
                          update_board |-> Some(keyboard_markup),
                          game_end |-> FALSE])
               ELSE Some([update_text |->
                             Some([summary |-> [k \in 1 .. Len(order) |->
                                                   <<order[k], counted[order[k]]>>],
                                   closing |-> CoopGame_closing(counted, order,
                                                                username, state)]),
                          update_board |-> Some(keyboard_markup),
                          game_end |-> TRUE])]
    ELSE [interactions |-> counts, result |-> None]

-----------------------------------------------------------------------------
(* The cooperative mine-field game as a state machine.  The game manager    *)
(* (src/main.rs, GameManager::handle_update) hands every callback to        *)
(* CoopGame::interact and drops the game once a result has game_end.        *)

CoopUsers == {Alice, Bob, Carol, Dave}

\* a manager that keeps every game
CoopEnded_kept == FALSE

\* the last result had game_end, so the manager has dropped the game
CoopEnded == \E r \in clast.result : r.game_end

\* the state after CoopGame::create, with n interactions to come
CoopStart(cells, n) ==
    /\ fimpl \in {"Field", "MineField"}
    /\ \E a \in NewArgs(cells) :
          field = IF fimpl = "Field" THEN Field_new(a[1], a[2], a[3])
                  ELSE MineField_new(a[1], a[2], a[3])
    /\ clicks = n
    /\ flast = [coord |-> <<0, 0>>, op |-> "none", ret |-> "none",
                initialized |-> FALSE, pre |-> field]
    /\ interactions = <<>>
    /\ clast = [user |-> Alice, changed |-> FALSE, result |-> None,
                pre |-> <<>>, made |-> FALSE,
                accepted |-> [u \in CoopUsers |-> 0]]
    /\ glast = <<>>
    /\ DiscIdle

\* CoopGame::interact called for user at coord, and what it does to the game
CoopInteractGame(user, coord) ==
    /\ clicks > 0
    /\ \E sample \in IF field.initialized THEN {{}}
                     ELSE Samples(field.columns * field.rows - 1, field.mines) :
          LET m == Minesweeper_interact(fimpl, field, coord, sample)
              counted == IF m.ret
                         THEN CoopGame_count(interactions, display_name(user))
                         ELSE interactions
          IN \E order \in IF m.ret /\ get_state(m.field) # "Normal"
                          THEN IterOrders(counted) ELSE {<<>>} :
                LET r == CoopGame_interact(interactions, m.ret, m.field, user, order)
                IN /\ field' = m.field
                   /\ flast' = [coord |-> coord, op |-> m.op,
                                ret |-> IF m.op = "uncover" THEN "unit"
                                        ELSE IF m.ret THEN "true" ELSE "false",
                                initialized |-> ~field.initialized, pre |-> m.pre]
                   /\ interactions' = r.interactions
                   /\ clast' = [user |-> user, changed |-> m.ret,
                                result |-> r.result, pre |-> interactions,
                                made |-> TRUE,
                                accepted |-> IF m.ret
                                    THEN [clast.accepted EXCEPT ![user] = @ + 1]
                                    ELSE clast.accepted]
    /\ clicks' = clicks - 1
    /\ UNCHANGED <<fimpl, glast>>
    /\ UNCHANGED discVars

\* a callback of user at coord on a running game
CoopInteract(user, coord) ==
    /\ ~CoopEnded
    /\ CoopInteractGame(user, coord)
    /\ UNCHANGED managerVars

CoopNext ==
    \E user \in CoopUsers : \E coord \in GridCoords(field.rows, field.columns) :
        CoopInteract(user, coord)

\* fields of up to MaxCoopCells cells, MaxCoopClicks interactions
CoopInit == CoopStart(MaxCoopCells, MaxCoopClicks) /\ ManagerIdle

SpecCoop == CoopInit /\ [][CoopNext]_vars

\* A longer game: on a field of two rows and three columns with two mines,
\* callbacks at the two cells of the left column, at the first of them again,
\* and at the two cells of the right column, each by any user.
TieScript == << <<0, 0>>, <<1, 0>>, <<0, 0>>, <<0, 2>>, <<1, 2>> >>

TieInit ==
    /\ CoopStart(6, Len(TieScript))
    /\ ManagerIdle
    /\ field.rows = 2
    /\ field.columns = 3
    /\ field.mines = 2

TieNext ==
    \E user \in CoopUsers :
        /\ clicks \in 1 .. Len(TieScript)
        /\ CoopInteract(user, TieScript[Len(TieScript) - clicks + 1])

SpecTie == TieInit /\ [][TieNext]_vars

-----------------------------------------------------------------------------
(* Claims about the cooperative game.                                       *)

\* the display names of the users
Names == {display_name(u) : u \in CoopUsers}

RECURSIVE SumAccepted(_)
SumAccepted(users) ==
    IF users = {} THEN 0
    ELSE LET u == CHOOSE x \in users : TRUE
         IN clast.accepted[u] + SumAccepted(users \ {u})

\* the interactions so far of the users shown as name for which the wrapped
\* game's interact returned true
AcceptedBy(name) == SumAccepted({u \in CoopUsers : display_name(u) = name})

\* C15: after any sequence of interactions the counter kept for an actor's
\* display name is the number of interactions under that name for which the
\* wrapped game's interact returned true (no counter exists while that number
\* is zero), and an interaction for which it returned false returns none and
\* leaves every counter as it was.
C15_CountsAcceptedMoves ==
    /\ DOMAIN interactions \subseteq Names
    /\ \A name \in Names :
          IF AcceptedBy(name) = 0 THEN name \notin DOMAIN interactions
          ELSE /\ name \in DOMAIN interactions
               /\ interactions[name] = AcceptedBy(name)
    /\ (clast.made /\ ~clast.changed) =>
          /\ clast.result = None
          /\ interactions = clast.pre

\* a rejected interaction after two accepted ones under the same name
C15_RejectedAfterTwoReached ==
    /\ clast.made /\ ~clast.changed
    /\ \E name \in DOMAIN interactions : interactions[name] = 2

\* the result of the last interaction, when there is one
LastResult == CHOOSE r \in clast.result : TRUE

\* the text of the last result
LastText == CHOOSE t \in LastResult.update_text : TRUE

\* the largest counter
MaxCount == CHOOSE n \in {interactions[k] : k \in DOMAIN interactions} :
               \A k \in DOMAIN interactions : interactions[k] <= n

\* the names that hold the largest counter
TopContributors == {k \in DOMAIN interactions : interactions[k] = MaxCount}

\* C16: an accepted move that leaves the game Solved or GameOver returns a
\* result with game_end = true whose closing line follows the four-way rule
\* on the counters and the state alone: the acting actor's counter is the
\* largest and Solved, "<actor> has won the game!"; the largest and GameOver,
\* "Boom, <actor> is dead!"; below the largest and Solved, "<actor> has
\* snatched it from <a holder of the largest counter>!"; below the largest
\* and GameOver, "<actor> has ruined it for <a holder of the largest
\* counter>!".
C16_ClosingLine ==
    (clast.made /\ clast.changed /\ get_state(field) # "Normal") =>
        /\ clast.result # None
        /\ LastResult.game_end
        /\ LastResult.update_text # None
        /\ LET username == display_name(clast.user)
               solved == get_state(field) = "Solved"
           IN IF interactions[username] = MaxCount
              THEN LastText.closing =
                     IF solved THEN <<username, "has won the game!">>
                     ELSE <<"Boom,", username, "is dead!">>
              ELSE \E top \in TopContributors :
                     LastText.closing =
                       IF solved THEN <<username, "has snatched it from", top>>
                       ELSE <<username, "has ruined it for", top>>

\* a game solved by an actor whose counter is below the largest
C16_SnatchedReached ==
    /\ CoopEnded
    /\ get_state(field) = "Solved"
    /\ interactions[display_name(clast.user)] < MaxCount
    /\ LastText.closing[2] = "has snatched it from"

\* C17: the closing line of an ended game, and with it the contributor it
\* names, is the same for every order in which the counters can be iterated,
\* also when several actors tie for the largest counter.
C17_AttributionDeterministic ==
    CoopEnded =>
        \A order \in IterOrders(interactions) :
            CoopGame_closing(interactions, order, display_name(clast.user),
                             get_state(field)) = LastText.closing

-----------------------------------------------------------------------------
(* The disc game with its two actors: Game of src/othello/game.rs over      *)
(* Board, and OthelloGame of src/othello_game.rs over Othello.              *)

\* the loop of get_score over the rows from row on: scores[i as usize] += 1
\* for every disc i of the row
RECURSIVE get_score_loop(_, _)
get_score_loop(b, row) ==
    IF row = BoardSide THEN <<0, 0>>
    ELSE LET rest == get_score_loop(b, row + 1)
             cells == {c \in BoardCoords : c[1] = row}
         IN <<Cardinality({c \in cells : b[c] = Some(FALSE)}) + rest[1],
              Cardinality({c \in cells : b[c] = Some(TRUE)}) + rest[2]>>

\* get_score: the discs of the first (false) and of the second (true) side
get_score(b) == get_score_loop(b, 0)

\* get_text when equal scores go to the second actor
Game_get_text_no_draw(g, b, p, over) ==
    LET scores == get_score(b) IN
    [line |-> <<g.first_player, scores[1], "vs", scores[2], g.second_player[2]>>,
     mark |-> IF over
              THEN IF scores[1] <= scores[2] THEN <<"Winner:", g.second_player[2]>>
                   ELSE <<"Winner:", g.first_player>>
              ELSE IF p THEN <<"white to move">> ELSE <<"black to move">>]

\* get_text: the status line, and what follows or precedes it
Game_get_text(g, b, p, over) ==
    LET scores == get_score(b) IN
    [line |-> <<g.first_player, scores[1], "vs", scores[2], g.second_player[2]>>,
     mark |-> IF over
              THEN IF scores[1] < scores[2] THEN <<"Winner:", g.second_player[2]>>
                   ELSE IF scores[1] = scores[2] THEN <<"Draw game.">>
                   ELSE <<"Winner:", g.first_player>>
              ELSE IF p THEN <<"white to move">> ELSE <<"black to move">>]

\* the players of a game started by creator with a mention of name
from_message(name, creator) ==
    [first_player |-> name,
     second_player |-> <<creator.id, display_name(creator)>>]

\* Game::is_current_player when the first actor is matched by display name
Game_is_current_player_by_name(g, p, user) ==
    IF ~p THEN display_name(user) = g.first_player
    ELSE user.id = g.second_player[1]

\* Game::is_current_player
Game_is_current_player(g, p, user) ==
    IF ~p THEN g.first_player \in user.username
    ELSE user.id = g.second_player[1]

\* the InteractResult of an accepted move
Game_result(g, b, p, over) ==
    Some([update_text |-> Some(Game_get_text(g, b, p, over)),
          update_board |-> Some(b),
          game_end |-> over])

\* what interact makes of a play call that left the board b at player p and
\* game_over over and returned ret ("none": play was not called)
Game_then_some(g, b, p, over, ret) ==
    [data |-> b, player |-> p, game_over |-> over, ret |-> ret,
     result |-> IF ret = "true" THEN Game_result(g, b, p, over) ELSE None]

\* what Board::play makes of the board
Game_play(g, r) ==
    Game_then_some(g, r.data, r.player, r.game_over, r.ret)

\* Game::interact: the board after it, what play returned ("none" when it
\* was not called) and the result
Game_interact(g, b, coord, user) ==
    IF Game_is_current_player(g, b.player, user)
    THEN Game_play(g, Board_play(b, coord))
    ELSE Game_then_some(g, b.data, b.player, b.game_over, "none")

\* what Othello::play makes of the board
OthelloGame_play(g, r) ==
    Game_then_some(g, r.board, r.player, r.game_over,
                   IF r.ret THEN "true" ELSE "false")

\* OthelloGame::interact
OthelloGame_interact(g, o, coord, user) ==
    IF \/ ~o.player /\ user.username = Some(g.first_player)
       \/ o.player /\ user.id = g.second_player[1]
    THEN OthelloGame_play(g, Othello_play(o, coord))
    ELSE Game_then_some(g, o.board, o.player, o.game_over, "none")

\* the state after from_message: a mention of alice by Bob, or of bob by
\* Carol
GameInit ==
    /\ impl \in {"Othello", "Board"}
    /\ data = IF impl = "Othello" THEN Othello_new.board ELSE Board_new.data
    /\ player = IF impl = "Othello" THEN Othello_new.player ELSE Board_new.player
    /\ game_over = IF impl = "Othello" THEN Othello_new.game_over
                   ELSE Board_new.game_over
    /\ fault = FALSE
    /\ opened = <<>>
    /\ calls = 0
    /\ last = NoCall(data, player, game_over)
    /\ FieldIdle
    /\ interactions = <<>>
    /\ clast = <<>>
    /\ ManagerIdle
    /\ \E m \in {<<"alice", Bob>>, <<"bob", Carol>>} :
          glast = [game |-> from_message(m[1], m[2]), user |-> Alice,
                   coord |-> <<0, 0>>, ret |-> "none", result |-> None,
                   made |-> FALSE, pre |-> NoCall(data, player, game_over)]

\* a callback of user at coord on a running disc game; a panic ends the
\* process, a result with game_end makes the manager drop the game
GameInteract(user, coord) ==
    /\ ~fault
    /\ MayCall(coord)
    /\ \A r \in glast.result : ~r.game_end
    /\ \E g \in {glast.game} :
        \E r \in {IF impl = "Othello"
                  THEN OthelloGame_interact(g, [board |-> data, player |-> player,
                                                game_over |-> game_over], coord, user)
                  ELSE Game_interact(g, [data |-> data, player |-> player,
                                         game_over |-> game_over], coord, user)} :
          /\ IF r.ret = "none"
             THEN /\ calls < MaxCalls
                  /\ calls' = calls + 1
                  /\ opened' = opened
                  /\ last' = last
             ELSE /\ MayCall(coord)
                  /\ Count(coord)
                  /\ last' = [coord |-> coord, ret |-> r.ret, data |-> data,
                              player |-> player, game_over |-> game_over]
          /\ data' = r.data
          /\ player' = r.player
          /\ game_over' = r.game_over
          /\ fault' = (r.ret = "fault")
          /\ glast' = [game |-> g, user |-> user, coord |-> coord,
                       ret |-> r.ret, result |-> r.result, made |-> TRUE,
                       pre |-> NoCall(data, player, game_over)]
    /\ UNCHANGED <<impl, interactions, clast>>
    /\ UNCHANGED managerVars
    /\ UNCHANGED fieldVars

GameNext ==
    \E user \in CoopUsers : \E coord \in BoardCoords : GameInteract(user, coord)

SpecGame == GameInit /\ [][GameNext]_vars

\* the actor whose turn it is: the mentioned first actor, by username, when
\* the false side is to move; the creator, by identity, when the true side is
ActiveActor(g, p, user) ==
    IF p THEN user.id = g.second_player[1]
    ELSE user.username # None /\ display_name(user) = g.first_player

\* C19: an interaction by an actor who is not the active player returns none
\* and leaves the board, the current player and game_over unchanged.
C19_WrongActorRejected ==
    (glast.made /\ ~ActiveActor(glast.game, glast.pre.player, glast.user)) =>
        /\ glast.result = None
        /\ glast.ret = "none"
        /\ data = glast.pre.data
        /\ player = glast.pre.player
        /\ game_over = glast.pre.game_over
        /\ ~fault

\* an actor who is not the active player has clicked a cell on which the
\* active player's move would have been accepted
C19_WrongActorOnLegalCellReached ==
    /\ glast.made
    /\ ~ActiveActor(glast.game, glast.pre.player, glast.user)
    /\ glast.pre.data[glast.coord] = None
    /\ Bracketed(glast.pre.data, glast.coord, glast.pre.player) # {}

-----------------------------------------------------------------------------
\* C20: game_over is monotonic: a play call never resets it once it is true,
\* and an accepted play that leaves neither side with a legal move sets it.
C20_GameOverMonotonic ==
    [][/\ game_over => game_over'
       /\ (/\ last'.ret = "true"
           /\ ~LegalMove(data', TRUE)
           /\ ~LegalMove(data', FALSE)) => game_over']_vars

\* a play call made on a finished game has left it finished
C20_CallAfterGameOverReached ==
    /\ Played
    /\ last.game_over
    /\ game_over
    /\ ~LegalMove(data, TRUE) /\ ~LegalMove(data, FALSE)

-----------------------------------------------------------------------------
(* Whole disc games: the callbacks follow a game from the first move to the *)
(* last, each callback by any user.                                         *)

\* a game of 60 moves that ends 32 to 32
ScriptDraw ==
    << <<3, 2>>, <<2, 4>>, <<1, 5>>, <<2, 2>>, <<4, 2>>, <<4, 1>>, <<5, 4>>,
       <<2, 3>>, <<3, 1>>, <<5, 5>>, <<2, 1>>, <<5, 3>>, <<6, 4>>, <<6, 3>>,
       <<4, 6>>, <<5, 6>>, <<5, 0>>, <<5, 1>>, <<6, 6>>, <<1, 1>>, <<6, 0>>,
       <<2, 5>>, <<7, 3>>, <<7, 5>>, <<3, 5>>, <<7, 2>>, <<6, 5>>, <<2, 6>>,
       <<1, 2>>, <<7, 6>>, <<4, 5>>, <<1, 3>>, <<0, 3>>, <<5, 7>>, <<7, 7>>,
       <<0, 4>>, <<1, 0>>, <<5, 2>>, <<0, 1>>, <<6, 1>>, <<1, 7>>, <<0, 0>>,
       <<3, 6>>, <<0, 2>>, <<0, 5>>, <<6, 7>>, <<4, 7>>, <<7, 4>>, <<4, 0>>,
       <<0, 6>>, <<7, 1>>, <<2, 0>>, <<3, 0>>, <<1, 6>>, <<6, 2>>, <<7, 0>>,
       <<3, 7>>, <<2, 7>>, <<1, 4>>, <<0, 7>> >>

\* a game of 58 moves that the second side wins 34 to 28, with two cells
\* left empty
ScriptSecond ==
    << <<2, 3>>, <<2, 2>>, <<5, 4>>, <<5, 3>>, <<3, 2>>, <<3, 5>>, <<1, 1>>,
       <<4, 2>>, <<3, 6>>, <<1, 3>>, <<0, 4>>, <<6, 5>>, <<1, 4>>, <<1, 2>>,
       <<4, 1>>, <<3, 1>>, <<2, 1>>, <<3, 0>>, <<4, 0>>, <<0, 1>>, <<6, 2>>,
       <<2, 0>>, <<1, 0>>, <<0, 3>>, <<2, 4>>, <<6, 3>>, <<5, 2>>, <<0, 5>>,
       <<0, 2>>, <<2, 6>>, <<7, 6>>, <<6, 4>>, <<0, 0>>, <<4, 6>>, <<3, 7>>,
       <<5, 1>>, <<1, 5>>, <<6, 1>>, <<6, 0>>, <<1, 7>>, <<5, 7>>, <<5, 6>>,
       <<0, 6>>, <<7, 4>>, <<7, 5>>, <<7, 1>>, <<5, 5>>, <<4, 7>>, <<6, 6>>,
       <<7, 7>>, <<7, 3>>, <<4, 5>>, <<2, 7>>, <<2, 5>>, <<5, 0>>, <<7, 2>>,
       <<0, 7>>, <<6, 7>> >>

Games == {ScriptWipeout, ScriptDraw, ScriptSecond}

\* a callback of user at the next cell of a game the accepted moves so far
\* have followed; a panic ends the process, a result with game_end makes the
\* manager drop the game
ReplayInteract(user) ==
    /\ ~fault
    /\ \A r \in glast.result : ~r.game_end
    /\ \E s \in Games :
          /\ Len(opened) < Len(s)
          /\ SubSeq(s, 1, Len(opened)) = opened
          /\ \E coord \in {s[Len(opened) + 1]} : \E g \in {glast.game} :
              \E r \in {IF impl = "Othello"
                        THEN OthelloGame_interact(g,
                                 [board |-> data, player |-> player,
                                  game_over |-> game_over], coord, user)
                        ELSE Game_interact(g,
                                 [data |-> data, player |-> player,
                                  game_over |-> game_over], coord, user)} :
                 /\ IF r.ret = "none"
                    THEN /\ opened' = opened
                         /\ last' = last
                    ELSE /\ opened' = Append(opened, coord)
                         /\ last' = [coord |-> coord, ret |-> r.ret,
                                     data |-> data, player |-> player,
                                     game_over |-> game_over]
                 /\ data' = r.data
                 /\ player' = r.player
                 /\ game_over' = r.game_over
                 /\ fault' = (r.ret = "fault")
                 /\ glast' = [game |-> g, user |-> user, coord |-> coord,
                              ret |-> r.ret, result |-> r.result, made |-> TRUE,
                              pre |-> NoCall(data, player, game_over)]
    /\ UNCHANGED <<impl, calls, interactions, clast>>
    /\ UNCHANGED managerVars
    /\ UNCHANGED fieldVars

ReplayNext == \E user \in CoopUsers : ReplayInteract(user)

SpecReplay == GameInit /\ [][ReplayNext]_vars

\* the discs of side p on board b
Discs(b, p) == Cardinality({c \in BoardCoords : b[c] = Some(p)})

\* the text of the last result of the disc game
LastGameText ==
    CHOOSE t \in (CHOOSE r \in glast.result : TRUE).update_text : TRUE

\* C21: get_score returns the number of discs of each side, and the text of
\* a result that ends the game names as winner the actor with strictly more
\* discs (the first actor plays the false discs, the second the true ones)
\* and reports a draw exactly when the two numbers are equal.
C21_WinnerByScore ==
    /\ get_score(data) = <<Discs(data, FALSE), Discs(data, TRUE)>>
    /\ (game_over /\ glast.result # None) =>
          /\ LastGameText.line[2] = Discs(data, FALSE)
          /\ LastGameText.line[4] = Discs(data, TRUE)
          /\ LastGameText.mark =
               IF Discs(data, FALSE) > Discs(data, TRUE)
               THEN <<"Winner:", glast.game.first_player>>
               ELSE IF Discs(data, TRUE) > Discs(data, FALSE)
               THEN <<"Winner:", glast.game.second_player[2]>>
               ELSE <<"Draw game.">>

\* a game has ended with as many discs of one side as of the other
C21_DrawReached ==
    /\ game_over
    /\ glast.result # None
    /\ Discs(data, FALSE) = Discs(data, TRUE)
    /\ LastGameText.mark = <<"Draw game.">>

-----------------------------------------------------------------------------
\* C22: in play through the game manager, which drops a game once a result
\* has game_end, the exploded statistic never exceeds 1.
C22_OneExplosion == field.stats.exploded <= 1

\* a mine has exploded and the game has been dropped
C22_ExplodedReached ==
    /\ CoopEnded
    /\ field.stats.exploded = 1
    /\ get_state(field) = "GameOver"

-----------------------------------------------------------------------------
-----------------------------------------------------------------------------
\* C24: after every interaction a cell in state Exploded has value Mine, and
\* no interaction changes the value of a cell that is in state Uncovered.
C24_ExplodedIsMine ==
    [][\A c \in Cells(field) :
          /\ CellAt(field', c).state = "Exploded" => CellAt(field', c).value = Mine
          /\ CellAt(field, c).state = "Uncovered" =>
                CellAt(field', c).value = CellAt(field, c).value]_vars

\* a mine has exploded next to an uncovered number
C24_ExplodedReached ==
    /\ flast.op = "uncover"
    /\ CellAt(field, flast.coord).state = "Exploded"
    /\ \E c \in Moore(field, flast.coord) :
          CellAt(field, c).state = "Uncovered" /\ CellAt(field, c).value > 0

-----------------------------------------------------------------------------
(* MineField of src/minesweeper.rs, the first revision of the mine field:   *)
(* a grid of width columns and height rows, and a count of the uncovered    *)
(* cells that hold no mine.                                                 *)

\* MineField::new of src/minesweeper.rs
OldMineField_new(width, height, mines) ==
    [initialized |-> FALSE,
     field |-> [i \in 0 .. width * height - 1 |-> Cell_default],
     width |-> width,
     height |-> height,
     mines |-> mines,
     uncovered |-> 0]

\* MineField::get_index of that revision
OldMineField_get_index(f, coord) == coord[1] * f.width + coord[2]

\* MineField::iter_neighborhood of that revision: the cells around center
OldMineField_iter_neighborhood(f, center) ==
    LET n == NeighborhoodCoordIterator(f.height, f.width, center)
    IN [k \in 1 .. Len(n) |-> f.field[OldMineField_get_index(f, n[k])]]

\* MineField::initialize of that revision; sample is what
\* rand::seq::index::sample(rng, width * height - 1, mines) returned
OldMineField_initialize(f, avoid, sample) ==
    LET avoid_index == OldMineField_get_index(f, avoid)
        mined == {IF i >= avoid_index THEN i + 1 ELSE i : i \in sample}
        laid == [f EXCEPT !.field = [i \in DOMAIN f.field |->
                     IF i \in mined THEN [f.field[i] EXCEPT !.value = -1]
                     ELSE f.field[i]]]
        IsMine(c) == c.value < 0
        Number(coord) ==
            Len(SelectSeq(OldMineField_iter_neighborhood(laid, coord), IsMine))
    IN [laid EXCEPT
          !.field = [i \in DOMAIN laid.field |->
                      IF ~(laid.field[i].value < 0)
                      THEN [laid.field[i] EXCEPT
                              !.value = Number(<<i \div f.width, i % f.width>>)]
                      ELSE laid.field[i]],
          !.initialized = TRUE]

\* MineField::is_solved of that revision
OldMineField_is_solved(f) == f.uncovered + f.mines = f.width * f.height

\* MineField::reveal of that revision: one iteration of the loop, from
\* pop_front to the extend
OldMineField_reveal_step(f, queue) ==
    LET coord == Head(queue)
        i == OldMineField_get_index(f, coord)
    IN IF f.field[i].state = "Covered"
       THEN LET g == [f EXCEPT
                        !.field[i].state = "Uncovered",
                        !.uncovered = IF f.field[i].value < 0 THEN @ ELSE @ + 1]
                IsCovered(c) == g.field[OldMineField_get_index(g, c)].state = "Covered"
            IN IF g.field[i].value = 0
               THEN [field |-> g,
                     queue |-> Tail(queue) \o
                         SelectSeq(NeighborhoodCoordIterator(g.height, g.width, coord),
                                   IsCovered)]
               ELSE [field |-> g, queue |-> Tail(queue)]
       ELSE [field |-> f, queue |-> Tail(queue)]

\* MineField::reveal of that revision: the loop runs until the queue is empty
RECURSIVE OldMineField_reveal(_, _)
OldMineField_reveal(f, queue) ==
    IF queue = <<>> THEN f
    ELSE LET s == OldMineField_reveal_step(f, queue)
         IN OldMineField_reveal(s.field, s.queue)

\* MineField::reveal_around of that revision
OldMineField_reveal_around(f, coord) ==
    OldMineField_reveal(f, NeighborhoodCoordIterator(f.height, f.width, coord))

\* MineField::uncover of that revision: false when the cell held a mine
OldMineField_uncover(f, coord) ==
    LET i == OldMineField_get_index(f, coord) IN
    IF f.field[i].value < 0
    THEN [field |-> [f EXCEPT !.field[i].state = "Exploded"], ret |-> FALSE]
    ELSE [field |-> OldMineField_reveal(f, <<coord>>), ret |-> TRUE]

\* MineField::uncover_around of that revision: what it returns.  A neighbour
\* that is not uncovered, exploded ones included, counts as covered.
OldMineField_uncover_around_ret(f, coord) ==
    LET cell == f.field[OldMineField_get_index(f, coord)]
        n == OldMineField_iter_neighborhood(f, coord)
        IsUncoveredMine(c) == c.state = "Uncovered" /\ c.value < 0
        NotUncovered(c) == c.state # "Uncovered"
        covered == Len(SelectSeq(n, NotUncovered))
        uncovered_mines == Len(SelectSeq(n, IsUncoveredMine))
    IN IF cell.value < 0 THEN FALSE
       ELSE IF covered = 0 THEN FALSE
       ELSE uncovered_mines = cell.value \/ covered + uncovered_mines = cell.value

\* MineField::uncover_around of that revision: the field after it, and what it returns
OldMineField_uncover_around(f, coord) ==
    IF OldMineField_uncover_around_ret(f, coord)
    THEN [field |-> OldMineField_reveal_around(f, coord), ret |-> TRUE]
    ELSE [field |-> f, ret |-> FALSE]

\* MineField::interact of that revision, on a field already initialized
\* (interact initializes it first when it is not)
OldMineField_interact(f, coord) ==
    IF f.field[OldMineField_get_index(f, coord)].state = "Covered"
    THEN LET u == OldMineField_uncover(f, coord)
         IN [field |-> u.field, ret |-> IF u.ret THEN "Changed" ELSE "GameOver"]
    ELSE LET a == OldMineField_uncover_around(f, coord)
         IN IF a.ret
            THEN [field |-> a.field,
                  ret |-> IF OldMineField_is_solved(a.field) THEN "Solved"
                          ELSE "Changed"]
            ELSE [field |-> a.field, ret |-> "Unchanged"]

-----------------------------------------------------------------------------
(* Construction alone, on every revision and for arguments of every size.  *)

Revisions == {"Field", "MineField", "OldMineField"}

\* no field has been constructed
NewInit ==
    /\ fimpl = "none"
    /\ field = <<>>
    /\ clicks = 0
    /\ flast = <<>>
    /\ DiscIdle
    /\ WrapIdle

\* a call of the constructor of revision rev with the arguments a: rows (or
\* height), columns (or width), mines
Construct(rev, a) ==
    /\ fimpl = "none"
    /\ fimpl' = rev
    /\ field' = IF rev = "Field" THEN Field_new(a[1], a[2], a[3])
                ELSE IF rev = "MineField" THEN MineField_new(a[1], a[2], a[3])
                ELSE OldMineField_new(a[2], a[1], a[3])
    /\ flast' = [op |-> "new", args |-> a]
    /\ UNCHANGED clicks
    /\ UNCHANGED discVars
    /\ UNCHANGED wrapVars

NewNext ==
    \E rev \in Revisions :
        \E a \in (0 .. MaxNewArg) \X (0 .. MaxNewArg)
                    \X (0 .. MaxNewArg * MaxNewArg) :
            Construct(rev, a)

SpecNew == NewInit /\ [][NewNext]_vars

\* the rows, the columns and the cells of a constructed field
NewRows == IF fimpl = "OldMineField" THEN field.height ELSE field.rows
NewColumns == IF fimpl = "OldMineField" THEN field.width ELSE field.columns
NewData == IF fimpl = "OldMineField" THEN field.field ELSE field.data

\* C25: construction clamps its arguments for every input: the field has at
\* least 2 rows and 2 columns and from 1 to rows * columns - 1 mines, and it
\* starts uninitialized with every cell Number(0) and Covered.
C25_ConstructionClamps ==
    fimpl # "none" =>
        /\ NewRows >= 2
        /\ NewColumns >= 2
        /\ 1 <= field.mines
        /\ field.mines <= NewRows * NewColumns - 1
        /\ ~field.initialized
        /\ DOMAIN NewData = 0 .. NewRows * NewColumns - 1
        /\ \A i \in DOMAIN NewData : NewData[i] = Cell_default

-----------------------------------------------------------------------------
\* C26: across every play call no occupied cell becomes empty and the number
\* of discs on the board does not decrease.
C26_DiscsNeverDecrease ==
    [][/\ \A c \in BoardCoords : data[c] # None => data'[c] # None
       /\ Discs(data', FALSE) + Discs(data', TRUE)
            >= Discs(data, FALSE) + Discs(data, TRUE)]_vars

\* an accepted play has flipped discs in more than one direction: one disc
\* more on the board, two or more discs with a new owner
C26_CaptureReached ==
    /\ Played /\ last.ret = "true"
    /\ Discs(data, FALSE) + Discs(data, TRUE)
         = Discs(last.data, FALSE) + Discs(last.data, TRUE) + 1
    /\ Cardinality({c \in BoardCoords :
                      last.data[c] # None /\ data[c] # last.data[c]}) >= 2
-----------------------------------------------------------------------------
(* The flood fill step by step: reveal as a loop over its queue, one       *)
(* iteration at a time, on the three revisions of the field.               *)

\* the grid of a field of revision rev and the cell at a coordinate
RevealRows(rev, f) == IF rev = "OldMineField" THEN f.height ELSE f.rows
RevealColumns(rev, f) == IF rev = "OldMineField" THEN f.width ELSE f.columns
RevealCoords(rev, f) == GridCoords(RevealRows(rev, f), RevealColumns(rev, f))
RevealCell(rev, f, c) ==
    IF rev = "OldMineField" THEN f.field[OldMineField_get_index(f, c)]
    ELSE f.data[to_index(f.columns, c)]

\* the fields reveal can be called on: constructed, then initialized by the
\* first interaction.  The oldest revision does not clamp the arguments of its
\* constructor (C25); it is given the ones its initialize does not panic on.
RevealFields(rev, cells) ==
    IF rev = "OldMineField"
    THEN UNION {
           UNION {
             {OldMineField_initialize(OldMineField_new(a[2], a[1], a[3]), avoid, sample) :
                sample \in Samples(a[1] * a[2] - 1, a[3])} :
             avoid \in GridCoords(a[1], a[2])} :
           a \in {b \in (1 .. cells) \X (1 .. cells) \X (0 .. MaxMines) :
                    b[1] * b[2] <= cells /\ b[3] <= b[1] * b[2] - 1}}
    ELSE UNION {
           LET f == IF rev = "Field" THEN Field_new(a[1], a[2], a[3])
                    ELSE MineField_new(a[1], a[2], a[3])
           IN UNION {
                {IF rev = "Field" THEN Field_initialize(f, avoid, sample)
                 ELSE MineField_initialize(f, avoid, sample) :
                   sample \in Samples(f.rows * f.columns - 1, f.mines)} :
                avoid \in GridCoords(f.rows, f.columns)} :
           a \in NewArgs(cells)}

\* the seeds the callers of reveal pass: once(coord) from uncover, when the
\* cell holds no mine, and the neighbourhood of coord from reveal_around, when
\* uncover_around finds its test passed
RevealSeeds(rev, f) ==
    {<<c>> : c \in {d \in RevealCoords(rev, f) : ~(RevealCell(rev, f, d).value < 0)}}
    \cup
    {IF rev = "Field" THEN neighborhood_of(c, f.rows, f.columns)
     ELSE NeighborhoodCoordIterator(RevealRows(rev, f), RevealColumns(rev, f), c) :
       c \in {d \in RevealCoords(rev, f) :
                IF rev = "Field" THEN Field_uncover_around_ret(f, d)
                ELSE IF rev = "MineField" THEN MineField_uncover_around_ret(f, d)
                ELSE OldMineField_uncover_around_ret(f, d)}}

\* how often coordinate c occurs in the sequence q
Occurrences(q, c) == Cardinality({k \in 1 .. Len(q) : q[k] = c})

RevealInit ==
    /\ fimpl \in Revisions
    /\ field \in RevealFields(fimpl, MaxRevealCells)
    /\ clicks = MaxReveals
    /\ flast = [op |-> "none", seeds |-> <<>>, queue |-> <<>>, steps |-> 0,
                enqueued |-> [c \in RevealCoords(fimpl, field) |-> 0],
                processed |-> [c \in RevealCoords(fimpl, field) |-> 0],
                pre |-> field]
    /\ DiscIdle
    /\ WrapIdle

\* reveal is entered: queue.extend(coords)
RevealBegin(seeds) ==
    /\ clicks > 0
    /\ flast.queue = <<>>
    /\ flast' = [op |-> "reveal", seeds |-> seeds, queue |-> seeds, steps |-> 0,
                 enqueued |-> [c \in RevealCoords(fimpl, field) |->
                                 Occurrences(seeds, c)],
                 processed |-> [c \in RevealCoords(fimpl, field) |-> 0],
                 pre |-> field]
    /\ clicks' = clicks - 1
    /\ UNCHANGED <<fimpl, field>>
    /\ UNCHANGED discVars
    /\ UNCHANGED wrapVars

\* one iteration of the loop of reveal; enqueued counts what the iteration
\* pushed, processed counts the iterations that wrote to the cell they
\* dequeued.  No run of the loop takes more iterations than the guard allows
\* (C28).
RevealStep ==
    /\ flast.queue # <<>>
    /\ flast.steps <= Len(flast.seeds)
                        + 8 * Cardinality(RevealCoords(fimpl, field))
    /\ \E s \in {IF fimpl = "Field" THEN Field_reveal_step(field, flast.queue)
                 ELSE IF fimpl = "MineField"
                 THEN MineField_reveal_step(field, flast.queue)
                 ELSE OldMineField_reveal_step(field, flast.queue)} :
          LET pushed == SubSeq(s.queue, Len(flast.queue), Len(s.queue))
              coord == Head(flast.queue)
          IN /\ field' = s.field
             /\ flast' = [flast EXCEPT
                   !.queue = s.queue,
                   !.steps = @ + 1,
                   !.enqueued = [c \in DOMAIN @ |-> @[c] + Occurrences(pushed, c)],
                   !.processed[coord] = IF s.field # field THEN @ + 1 ELSE @]
    /\ UNCHANGED <<fimpl, clicks>>
    /\ UNCHANGED discVars
    /\ UNCHANGED wrapVars

RevealNext ==
    \/ \E seeds \in RevealSeeds(fimpl, field) : RevealBegin(seeds)
    \/ RevealStep

SpecReveal == RevealInit /\ [][RevealNext]_vars

\* the loop of reveal is not preempted: while let Some(coord) = pop_front()
\* runs until the queue is empty
SpecRevealFair == SpecReveal /\ WF_vars(RevealStep)
-----------------------------------------------------------------------------
\* the cells next to c, its up to eight neighbours
RevealAround(c) ==
    {n \in RevealCoords(fimpl, field) :
        /\ n # c
        /\ n[1] - c[1] \in {-1, 0, 1}
        /\ n[2] - c[2] \in {-1, 0, 1}}

\* the neighbours of c the running reveal has uncovered and found to have no
\* mine around them: the iterations that push their covered neighbours
RevealZeroAround(c) ==
    {n \in RevealAround(c) :
        flast.processed[n] >= 1 /\ RevealCell(fimpl, field, n).value = 0}

\* C27 as stated: during one flood-fill reveal every cell is enqueued at most
\* once and processed (uncovered) at most once, for every field and every
\* seed set.
C27_EnqueuedOnce ==
    \A c \in RevealCoords(fimpl, field) :
        flast.enqueued[c] <= 1 /\ flast.processed[c] <= 1

\* C27, amended: during one flood-fill reveal every cell is processed
\* (uncovered) at most once; it can be enqueued more than once, at most once
\* as a seed and once for each neighbour the reveal uncovers with no mine
\* around it.
C27_ProcessedOnce ==
    \A c \in RevealCoords(fimpl, field) :
        /\ flast.processed[c] <= 1
        /\ flast.enqueued[c]
             <= Occurrences(flast.seeds, c) + Cardinality(RevealZeroAround(c))

\* a reveal has run to the end, and a cell it enqueued twice was uncovered once
C27_EnqueuedTwiceReached ==
    /\ flast.op = "reveal"
    /\ flast.queue = <<>>
    /\ \E c \in RevealCoords(fimpl, field) :
          flast.enqueued[c] >= 2 /\ flast.processed[c] = 1
-----------------------------------------------------------------------------
\* C28: every flood-fill reveal terminates: from any field state and any seed
\* coordinates the queue eventually empties, after a number of steps bounded
\* by the grid size, here by the number of seeds plus eight for each cell of
\* the grid.
C28_RevealTerminates ==
    /\ [](flast.steps <= Len(flast.seeds)
                           + 8 * Cardinality(RevealCoords(fimpl, field)))
    /\ (flast.queue # <<>>) ~> (flast.queue = <<>>)

\* a reveal has run until its queue was empty, in more iterations than the
\* grid has cells
C28_QueueEmptiedReached ==
    /\ flast.op = "reveal"
    /\ flast.queue = <<>>
    /\ flast.steps > Cardinality(RevealCoords(fimpl, field))
-----------------------------------------------------------------------------
(* The game manager: GameManager::handle_update on one game message, a     *)
(* cooperative mine-field game registered under its chat and message id.   *)

\* the key of the game: the chat and the id of the message that shows it
GameMessage == <<"chat", "message">>

\* InteractResult::default
InteractResult_default ==
    [update_text |-> None, update_board |-> None, game_end |-> FALSE]

\* Option::unwrap_or_default on what interact returned
unwrap_or_default(result) ==
    IF result = None THEN InteractResult_default ELSE CHOOSE r \in result : TRUE

\* a manager that keeps the game whatever the result says
GameManager_remove_never(games, key, result) == games

\* handle_update, callback branch: the game is removed when the result has
\* game_end
GameManager_remove(games, key, result) ==
    IF result.game_end THEN games \ {key} ELSE games

\* InteractResult::reply_to sends a request only when there is a text or a
\* board to update; reply is how that request ends
InteractResult_reply_to(result, reply) ==
    IF result.update_text # None \/ result.update_board # None THEN reply
    ELSE "Ok"

\* the errors handle_update returns from a callback before it looks the game
\* up: the acknowledgement failed, the data is no coordinate, the message is
\* gone
EarlyErrors == {"BotError", "InvalidCoord", "MessageTooOld"}

\* the users who press the buttons of the game message
ManagerUsers == {Alice, Bob}

\* the manager is constructed; the game the /mine command will create is
\* drawn here
ManagerInit == CoopStart(MaxCoopCells, MaxManagerClicks) /\ ManagerIdle

\* handle_update, message branch, /mine: the game message is sent and the game
\* registered under its key.  (When sending fails there is no game message to
\* call back on.)
ManagerCreate ==
    /\ handled.op = "none"
    /\ running_games' = running_games \cup {GameMessage}
    /\ handled' = [op |-> "message", ret |-> "Ok"]
    /\ UNCHANGED <<interactions, clast, glast>>
    /\ UNCHANGED fieldVars
    /\ UNCHANGED discVars

\* handle_update, callback branch, returning early
ManagerCallbackRejected(err) ==
    /\ handled.op # "none"
    /\ handled' = [op |-> "callback", ret |-> err]
    /\ UNCHANGED <<interactions, clast, glast, running_games>>
    /\ UNCHANGED fieldVars
    /\ UNCHANGED discVars

\* handle_update, callback branch, from the lookup on: a callback of user at
\* coord on the game message; reply is how the request of reply_to ends
ManagerCallback(user, coord, reply) ==
    /\ handled.op # "none"
    /\ IF GameMessage \in running_games
       THEN /\ CoopInteractGame(user, coord)
            /\ \E result \in {unwrap_or_default(clast'.result)} :
                  /\ running_games' =
                        GameManager_remove(running_games, GameMessage, result)
                  /\ handled' = [op |-> "callback",
                                 ret |-> InteractResult_reply_to(result, reply)]
       ELSE /\ handled' = [op |-> "callback", ret |-> "NoSuchGame"]
            /\ UNCHANGED <<interactions, clast, glast, running_games>>
            /\ UNCHANGED fieldVars
            /\ UNCHANGED discVars

\* handle_update, message branch, /del in reply to the game message; reply is
\* how the request that deletes the message ends
ManagerDelete(reply) ==
    /\ handled.op # "none"
    /\ IF GameMessage \in running_games
       THEN /\ running_games' = running_games \ {GameMessage}
            /\ handled' = [op |-> "del", ret |-> reply]
       ELSE /\ handled' = [op |-> "del", ret |-> "NoSuchGame"]
            /\ UNCHANGED running_games
    /\ UNCHANGED <<interactions, clast, glast>>
    /\ UNCHANGED fieldVars
    /\ UNCHANGED discVars

ManagerNext ==
    \/ ManagerCreate
    \/ \E err \in EarlyErrors : ManagerCallbackRejected(err)
    \/ \E user \in ManagerUsers : \E coord \in GridCoords(field.rows, field.columns) :
          \E reply \in {"Ok", "BotError"} : ManagerCallback(user, coord, reply)
    \/ \E reply \in {"Ok", "BotError"} : ManagerDelete(reply)

SpecManager == ManagerInit /\ [][ManagerNext]_vars
-----------------------------------------------------------------------------
\* the game of the game message is in running_games
Registered == GameMessage \in running_games

\* the step is a callback that reached the game, and the result of its
\* interaction has game_end
EndingInteraction ==
    /\ Registered
    /\ clicks' # clicks
    /\ unwrap_or_default(clast'.result).game_end

\* when an interaction returns a result with game_end the manager removes the
\* game, however the reply ends
RemovedAtGameEnd == EndingInteraction => ~Registered'

\* once the game is removed it stays removed, no update changes the state of
\* the game, and a callback ends in an error: NoSuchGame when it reaches the
\* lookup
NoGameAfterRemoval ==
    (~Registered /\ handled.op # "none") =>
        /\ ~Registered'
        /\ UNCHANGED <<interactions, clast>>
        /\ UNCHANGED fieldVars
        /\ handled'.op = "callback" =>
              handled'.ret \in {"NoSuchGame"} \cup EarlyErrors

\* C29 as stated: when an interaction returns a result with game_end = true
\* the manager removes the game from running_games before replying, so every
\* later callback for the same message fails with NoSuchGame and mutates no
\* game state; a game whose interactions all return game_end = false (or
\* none) stays registered.
C29_RemovedOnGameEnd ==
    /\ [][RemovedAtGameEnd /\ NoGameAfterRemoval]_vars
    /\ []((handled.op # "none" /\ ~CoopEnded) => Registered)

\* C29, amended: when an interaction returns a result with game_end = true
\* the manager removes the game before replying, so every later callback for
\* the same message fails with NoSuchGame and mutates no game state; a
\* callback whose interaction returns game_end = false (or none) leaves the
\* game registered, and the only other way a game leaves running_games is a
\* /del command in reply to its message.
C29_RemovedOnGameEndOrDel ==
    [][/\ RemovedAtGameEnd
       /\ NoGameAfterRemoval
       /\ (Registered /\ ~Registered') =>
             \/ handled'.op = "del"
             \/ handled'.op = "callback" /\ EndingInteraction]_vars

\* the game ended, the manager removed it, and a later callback found no game
C29_CallbackAfterEndReached ==
    /\ CoopEnded
    /\ ~Registered
    /\ handled = [op |-> "callback", ret |-> "NoSuchGame"]
-----------------------------------------------------------------------------
(* The mine field of revision src/minesweeper.rs as a state machine:       *)
(* MineField::interact, which reports what it did as an InteractResult.    *)

\* rand::seq::index::sample(rng, length, amount) panics when it is asked
\* for more indices than there are
sample_panics(length, amount) == amount > length

\* the state after MineField::new of that revision, which takes its arguments
\* as they are (C25): any grid with a cell to click on, any number of mines
SweeperInit ==
    /\ fimpl = "OldMineField"
    /\ \E a \in {b \in (1 .. MaxSweeperCells) \X (1 .. MaxSweeperCells)
                        \X (0 .. MaxMines) :
                   b[1] * b[2] <= MaxSweeperCells} :
          field = OldMineField_new(a[2], a[1], a[3])
    /\ clicks = MaxSweeperClicks
    /\ flast = [coord |-> <<0, 0>>, op |-> "none", ret |-> "none", pre |-> field]
    /\ DiscIdle
    /\ WrapIdle

\* MineField::interact of that revision at coord: the first call initializes
\* the field avoiding coord, and panics there, before it has written
\* anything, when the field has too few cells for its mines; the panic ends
\* the process
SweeperInteract(coord) ==
    /\ clicks > 0
    /\ flast.ret # "fault"
    /\ IF ~field.initialized
          /\ sample_panics(field.width * field.height - 1, field.mines)
       THEN /\ field' = field
            /\ flast' = [coord |-> coord, op |-> "interact", ret |-> "fault",
                         pre |-> field]
       ELSE \E sample \in IF field.initialized THEN {{}}
                          ELSE Samples(field.width * field.height - 1, field.mines) :
               \E f \in {IF field.initialized THEN field
                         ELSE OldMineField_initialize(field, coord, sample)} :
                  \E r \in {OldMineField_interact(f, coord)} :
                     /\ field' = r.field
                     /\ flast' = [coord |-> coord, op |-> "interact",
                                  ret |-> r.ret, pre |-> f]
    /\ clicks' = clicks - 1
    /\ UNCHANGED fimpl
    /\ UNCHANGED discVars
    /\ UNCHANGED wrapVars

SweeperNext ==
    \E coord \in GridCoords(field.height, field.width) : SweeperInteract(coord)

SpecSweeper == SweeperInit /\ [][SweeperNext]_vars

\* C30: MineField::interact returns Solved whenever the interaction changes
\* the field and leaves is_solved() true (every non-mine cell uncovered),
\* whether the last non-mine cell was uncovered by a direct uncover of a
\* covered cell or by a chord; it returns Changed only when the field changed
\* and is not yet solved.
C30_SolvedReported ==
    flast.op = "interact" =>
        LET changed == field.field # flast.pre.field
            solved == OldMineField_is_solved(field)
        IN /\ (changed /\ solved) => flast.ret = "Solved"
           /\ flast.ret = "Changed" => (changed /\ ~solved)
-----------------------------------------------------------------------------
\* p has a legal move on b: an empty cell from which some direction holds a
\* bracket
CanMove(b, p) ==
    \E c \in BoardCoords :
        b[c] = None /\ \E d \in Dirs : Brackets(b, c, d, p) # {}

\* C31: in every disc-board state reached from the initial board by play
\* calls, if game_over is false then the current player has at least one
\* legal move.
C31_MoverCanMove ==
    (impl # "none" /\ ~fault /\ ~game_over) => CanMove(data, player)

\* an accepted play has left the other side without a move: the mover is to
\* move again, and has a move
C31_MoverAfterPassReached ==
    /\ Played /\ last.ret = "true"
    /\ ~game_over
    /\ player = last.player
    /\ CanMove(data, player)
    /\ ~CanMove(data, ~player)
-----------------------------------------------------------------------------
\* C32: every accepted play increases the total disc count by exactly one
\* (so that from the initial board of 4 discs at most 60 plays are accepted
\* and every game reaches a state where no further play is accepted).
C32_AcceptedAddsOneDisc ==
    (Played /\ last.ret = "true") =>
        Discs(data, FALSE) + Discs(data, TRUE)
            = Discs(last.data, FALSE) + Discs(last.data, TRUE) + 1
-----------------------------------------------------------------------------
\* C33: the first interaction on an uninitialized mine field never explodes a
\* mine: it initializes the field avoiding the clicked coordinate, leaves
\* that cell Uncovered, and results in state Normal or Solved, for every grid
\* size, mine count and clicked coordinate.
C33_FirstInteractionSafe ==
    (flast.op = "interact" /\ clicks = MaxSweeperClicks - 1) =>
        LET cell == field.field[OldMineField_get_index(field, flast.coord)]
        IN /\ field.initialized
           /\ ~(cell.value < 0)
           /\ cell.state = "Uncovered"
           /\ \A i \in DOMAIN field.field : field.field[i].state # "Exploded"
           /\ flast.ret \in {"Changed", "Solved"}
-----------------------------------------------------------------------------
\* the neighbours of the chorded cell that the last interaction uncovered
ChordUncovered == Moore(flast.pre, flast.coord) \cap NewlyUncovered(flast.pre, field)

\* C34: a chord can never lose the game: uncover_around never sets a cell to
\* Exploded and never changes the exploded statistic, and whenever it returns
\* true in a state reached through interactions the neighbours it uncovers
\* are either all mines or all non-mines.
C34_ChordNeverLoses ==
    (fimpl # "none" /\ flast.op = "uncover_around") =>
        /\ InState(field, "Exploded") = InState(flast.pre, "Exploded")
        /\ field.stats.exploded = flast.pre.stats.exploded
        /\ flast.ret = "true" =>
              \/ ChordUncovered \subseteq MineCells(field)
              \/ ChordUncovered \cap MineCells(field) = {}

\* a chord has uncovered mines, and nothing but mines, around its cell, and
\* the game is not lost
C34_MinesUncoveredReached ==
    /\ fimpl # "none"
    /\ flast.op = "uncover_around"
    /\ flast.ret = "true"
    /\ ChordUncovered # {}
    /\ ChordUncovered \subseteq MineCells(field)
    /\ field.stats.exploded = 0
-----------------------------------------------------------------------------
\* C35: after any sequence of uncover / uncover_around calls, uncovered_blank
\* equals the number of non-mine cells whose state is Uncovered.
C35_UncoveredBlankCount ==
    fimpl \in {"Field", "MineField"} =>
        field.stats.uncovered_blank = Cardinality(UncoveredBlanks(field))

\* blanks have been uncovered, and a chord has uncovered a mine, which the
\* statistic does not count
C35_UncoveredMineReached ==
    /\ fimpl \in {"Field", "MineField"}
    /\ field.stats.uncovered_blank >= 1
    /\ InState(field, "Uncovered") \cap MineCells(field) # {}
-----------------------------------------------------------------------------
\* C36: cell states only move forward under interactions: a Covered cell may
\* become Uncovered or Exploded, but an Uncovered cell stays Uncovered and an
\* Exploded cell stays Exploded in every later state.
C36_StatesMoveForward ==
    [][fimpl # "none" =>
         \A c \in RevealCoords(fimpl, field) :
            RevealCell(fimpl, field, c).state \in {"Uncovered", "Exploded"} =>
               RevealCell(fimpl, field', c).state = RevealCell(fimpl, field, c).state]_vars

\* next to a cell that had exploded, an interaction has uncovered cells
C36_UncoveredBesideExplodedReached ==
    /\ fimpl \in {"Field", "MineField"}
    /\ flast.op # "none"
    /\ \E c \in InState(flast.pre, "Exploded") :
          Moore(field, c) \cap NewlyUncovered(flast.pre, field) # {}
-----------------------------------------------------------------------------
\* the closing line of the last result names a contributor
NamesContributor ==
    /\ clast # <<>>
    /\ clast.result # None
    /\ LastResult.game_end
    /\ LastText.closing[2] \in {"has snatched it from", "has ruined it for"}

\* C37: whenever the closing line names a top contributor ("snatched it
\* from" / "ruined it for"), the named actor holds the maximum move count
\* among all actors and is different from the acting actor.
C37_NamedHoldsMaximum ==
    NamesContributor =>
        /\ LastText.closing[1] = display_name(clast.user)
        /\ LastText.closing[3] \in TopContributors
        /\ LastText.closing[3] # display_name(clast.user)

\* a game lost by an actor whose counter is below the largest: the closing
\* line blames the actor and names another
C37_RuinedReached ==
    /\ NamesContributor
    /\ get_state(field) = "GameOver"
    /\ LastText.closing[2] = "has ruined it for"
    /\ interactions[LastText.closing[3]] > interactions[display_name(clast.user)]

=============================================================================
